---- MODULE Spec2Model ----
(***************************************************************************)
(* Transaction processor with six concurrency-control modes (SERIAL,       *)
(* LOCKING_EXCLUSIVE_ONLY, LOCKING, OCC, P_OCC, MVCC): scheduler thread,   *)
(* worker tasks, lock managers A and B, single-version storage and MVCC    *)
(* storage.                                                                *)
(***************************************************************************)
EXTENDS Integers, Sequences, FiniteSets, Bags, TLC

\* ------------------------------------------------------------------ bounds
\* Largest transaction id the model hands out; an admission or a restart
\* that would need a larger id is not taken.
MaxId == 4

\* Keys 1..NumKeys stand for keys of the initialised range of the storage.
NumKeys == 3

\* Threads (and queues) of the StaticThreadPool; THREAD_COUNT is 8.
NumThreads == 2

\* Tasks handed to RunTask in the runs of the thread pool alone.
MaxTasks == 3

\* ---------------------------------------------------------------- helpers
Keys == 1..NumKeys

\* A key outside the range InitStorage fills (>= 1000000 in the source).
AbsentKey == NumKeys + 1

AllKeys == Keys \cup {AbsentKey}

EmptyMap == <<>>

Min(S) == CHOOSE x \in S : \A y \in S : x <= y

RECURSIVE SetToSeq(_)
\* Iteration order of a std::set<Key>: ascending.
SetToSeq(S) == IF S = {} THEN <<>> ELSE <<Min(S)>> \o SetToSeq(S \ {Min(S)})

\* map[key] = value on a std::map modelled as a function with a finite domain.
MapPut(f, k, v) == [x \in (DOMAIN f) \cup {k} |-> IF x = k THEN v ELSE f[x]]

\* txn_waits_[txn] read with operator[] semantics: a missing entry reads 0.
MapGet0(f, k) == IF k \in DOMAIN f THEN f[k] ELSE 0

MapErase(f, k) == [x \in (DOMAIN f) \ {k} |-> f[x]]

RemoveAt(q, i) == SubSeq(q, 1, i - 1) \o SubSeq(q, i + 1, Len(q))

\* Index of the first request of txn t in queue q, 0 when there is none.
FirstIndex(q, t) ==
  IF \E i \in 1..Len(q) : q[i].txn_ = t
  THEN Min({i \in 1..Len(q) : q[i].txn_ = t})
  ELSE 0

\* ------------------------------------------------------- transaction types
Noop == [kind |-> "Noop", readset_ |-> {}, writeset_ |-> {}, m_ |-> EmptyMap]

Expect(m) == [kind |-> "Expect", readset_ |-> DOMAIN m, writeset_ |-> {}, m_ |-> m]

Put(m) == [kind |-> "Put", readset_ |-> {}, writeset_ |-> DOMAIN m, m_ |-> m]

RMW(rs, ws) == [kind |-> "RMW", readset_ |-> rs, writeset_ |-> ws, m_ |-> EmptyMap]

\* A program that writes the pairs of m and returns from Run without COMMIT
\* or ABORT: its status_ stays INCOMPLETE.
Unfinished(m) == [kind |-> "Unfinished", readset_ |-> {}, writeset_ |-> DOMAIN m, m_ |-> m]

\* Txn::Read: satisfied from reads_.
TxnRead(reads, k) == k \in DOMAIN reads

RECURSIVE ExpectRun(_, _, _)
\* Expect::Run over the keys ks of m_ in map order: ABORT on the first key
\* that is missing from reads_ or differs from the expected value.
ExpectRun(p, reads, ks) ==
  IF ks = <<>> THEN "COMPLETED_C"
  ELSE IF ~TxnRead(reads, Head(ks)) \/ reads[Head(ks)] # p.m_[Head(ks)]
       THEN "COMPLETED_A"
       ELSE ExpectRun(p, reads, Tail(ks))

RECURSIVE RMWWrites(_, _, _)
\* RMW::Run write loop: result = 0; Read(key, &result); Write(key, result + 1).
RMWWrites(reads, writes, ks) ==
  IF ks = <<>> THEN writes
  ELSE LET k == Head(ks)
           result == IF TxnRead(reads, k) THEN reads[k] ELSE 0
       IN RMWWrites(reads, MapPut(writes, k, result + 1), Tail(ks))

RECURSIVE PutWrites(_, _, _)
\* Put::Run: Write(key, value) for every pair of m_.
PutWrites(p, writes, ks) ==
  IF ks = <<>> THEN writes
  ELSE PutWrites(p, MapPut(writes, Head(ks), p.m_[Head(ks)]), Tail(ks))

\* txn->Run(): the status the program declares and the writes_ it leaves.
Run(p, reads, writes) ==
  CASE p.kind = "Noop"   -> [status |-> "COMPLETED_C", writes |-> writes]
    [] p.kind = "Expect" -> [status |-> ExpectRun(p, reads, SetToSeq(DOMAIN p.m_)),
                             writes |-> writes]
    [] p.kind = "Put"    -> [status |-> "COMPLETED_C",
                             writes |-> PutWrites(p, writes, SetToSeq(DOMAIN p.m_))]
    [] p.kind = "Unfinished" ->
                            [status |-> "INCOMPLETE",
                             writes |-> PutWrites(p, writes, SetToSeq(DOMAIN p.m_))]
    [] OTHER             -> [status |-> "COMPLETED_C",
                             writes |-> RMWWrites(reads, writes, SetToSeq(p.writeset_))]

\* Keys ExecuteTxn reads, in order: the read set, then the write set.
KeySeq(p) == SetToSeq(p.readset_) \o SetToSeq(p.writeset_)

\* ------------------------------------------------------------ lock manager
\* The lock manager state is the record
\*   [lock_table_, txn_waits_, numExclusiveWaiting, ready_txns_].
LockRequest(mode, t) == [mode_ |-> mode, txn_ |-> t]

\* LockManagerA::WriteLock without `txn_waits_[txn]++' on a denied request.
LockManagerA_WriteLockNoWait(lm, t, k) ==
  LET q == Append(lm.lock_table_[k], LockRequest("EXCLUSIVE", t))
  IN [lm |-> [lm EXCEPT !.lock_table_[k] = q], granted |-> Len(q) = 1]

\* LockManagerA::WriteLock: append an EXCLUSIVE request; granted iff the
\* queue then has size 1, else txn_waits_[txn]++.
LockManagerA_WriteLock(lm, t, k) ==
  LET q == Append(lm.lock_table_[k], LockRequest("EXCLUSIVE", t))
      granted == Len(q) = 1
  IN [lm |-> [lm EXCEPT !.lock_table_[k] = q,
                        !.txn_waits_ = IF granted THEN @
                                       ELSE MapPut(@, t, MapGet0(@, t) + 1)],
      granted |-> granted]

\* LockManagerA::ReadLock uses the logic of WriteLock.
LockManagerA_ReadLock(lm, t, k) == LockManagerA_WriteLock(lm, t, k)

\* LockManagerA::Release: erase the first request of txn; when that request
\* was the head and the queue is still non-empty, decrement the wait count
\* of the new head and make it ready when the count is <= 0.
LockManagerA_Release(lm, t, k) ==
  LET q0 == lm.lock_table_[k]
      i == FirstIndex(q0, t)
      q == IF i = 0 THEN q0 ELSE RemoveAt(q0, i)
      deleteHappened == (q0 = <<>>) \/ (i = 1)
      erased == [lm EXCEPT !.lock_table_[k] = q]
  IN IF Len(q) >= 1 /\ deleteHappened
     THEN LET next_transaction == q[1].txn_
              w == MapGet0(lm.txn_waits_, next_transaction) - 1
          IN IF w <= 0
             THEN {[erased EXCEPT !.ready_txns_ = Append(@, next_transaction),
                                  !.txn_waits_ = MapErase(@, next_transaction)]}
             ELSE {[erased EXCEPT !.txn_waits_ = MapPut(@, next_transaction, w)]}
     ELSE {erased}

\* LockManagerA::Status.
LockManagerA_Status(q) ==
  IF Len(q) = 0 THEN [mode |-> "UNLOCKED", owners |-> <<>>]
  ELSE [mode |-> "EXCLUSIVE", owners |-> <<q[1].txn_>>]

RECURSIVE StatusScan(_, _, _, _)
\* Loop of LockManagerB::Status from request i on: stop before an EXCLUSIVE
\* request that follows SHARED ones, and after an EXCLUSIVE request.
StatusScan(q, i, mode, owners) ==
  IF i > Len(q) THEN [mode |-> mode, owners |-> owners]
  ELSE IF q[i].mode_ = "EXCLUSIVE" /\ mode = "SHARED"
       THEN [mode |-> mode, owners |-> owners]
       ELSE IF q[i].mode_ = "EXCLUSIVE"
            THEN [mode |-> "EXCLUSIVE", owners |-> Append(owners, q[i].txn_)]
            ELSE StatusScan(q, i + 1, q[i].mode_, Append(owners, q[i].txn_))

\* LockManagerB::Status.
LockManagerB_Status(q) ==
  IF q = <<>> THEN [mode |-> "UNLOCKED", owners |-> <<>>]
  ELSE StatusScan(q, 1, "EXCLUSIVE", <<>>)

\* LockManagerB::_noExclusiveWaiting.
NoExclusiveWaiting(lm, k) == lm.numExclusiveWaiting[k] = 0

\* LockManagerB::_addLock.
LockManagerB_addLock(lm, mode, t, k) ==
  LET status == LockManagerB_Status(lm.lock_table_[k]).mode
      granted == (status = "UNLOCKED") \/ (mode = "SHARED" /\ NoExclusiveWaiting(lm, k))
  IN [lm |-> [lm EXCEPT !.lock_table_[k] = Append(@, LockRequest(mode, t)),
                        !.numExclusiveWaiting[k] = IF mode = "SHARED" THEN @ ELSE @ + 1,
                        !.txn_waits_ = IF granted THEN @
                                       ELSE MapPut(@, t, MapGet0(@, t) + 1)],
      granted |-> granted]

LockManagerB_WriteLock(lm, t, k) == LockManagerB_addLock(lm, "EXCLUSIVE", t, k)

LockManagerB_ReadLock(lm, t, k) == LockManagerB_addLock(lm, "SHARED", t, k)

\* The values `it->mode_' can have after `queue->erase(it)': the iterator is
\* invalidated by the erase, so the read sees the erased request's old slot,
\* which still holds the erased request or now holds the neighbour that the
\* deque shifted into it.
ModeAfterErase(q0, i) ==
  {q0[i].mode_} \cup {q0[j].mode_ : j \in {i - 1, i + 1} \cap (1..Len(q0))}

RECURSIVE AdvanceOwners(_, _)
\* Loop over newOwners of LockManagerB::Release: an owner that has an entry
\* in txn_waits_ gets it decremented, and is made ready when it reaches 0.
AdvanceOwners(lm, owners) ==
  IF owners = <<>> THEN lm
  ELSE LET o == Head(owners) IN
       IF o \in DOMAIN lm.txn_waits_
       THEN IF lm.txn_waits_[o] - 1 = 0
            THEN AdvanceOwners([lm EXCEPT !.ready_txns_ = Append(@, o),
                                          !.txn_waits_ = MapErase(@, o)],
                               Tail(owners))
            ELSE AdvanceOwners([lm EXCEPT !.txn_waits_ = MapPut(@, o, @[o] - 1)],
                               Tail(owners))
       ELSE AdvanceOwners(lm, Tail(owners))

\* LockManagerB::Release: the set of states the call can leave.
LockManagerB_Release(lm, t, k) ==
  LET q0 == lm.lock_table_[k]
      i == FirstIndex(q0, t)
  IN IF i = 0
     THEN {AdvanceOwners(lm, LockManagerB_Status(q0).owners)}
     ELSE LET q == RemoveAt(q0, i) IN
          {AdvanceOwners([lm EXCEPT !.lock_table_[k] = q,
                                    !.numExclusiveWaiting[k] =
                                        IF md = "EXCLUSIVE" THEN @ - 1 ELSE @],
                         LockManagerB_Status(q).owners)
             : md \in ModeAfterErase(q0, i)}

\* lm_->ReadLock / WriteLock / Release of the manager the mode constructs.
ReadLock(lmk, lm, t, k) ==
  IF lmk = "LOCKING_EXCLUSIVE_ONLY" THEN LockManagerA_ReadLock(lm, t, k)
  ELSE LockManagerB_ReadLock(lm, t, k)

WriteLock(lmk, lm, t, k) ==
  IF lmk = "LOCKING_EXCLUSIVE_ONLY" THEN LockManagerA_WriteLock(lm, t, k)
  ELSE LockManagerB_WriteLock(lm, t, k)

Release(lmk, lm, t, k) ==
  IF lmk = "LOCKING_EXCLUSIVE_ONLY" THEN LockManagerA_Release(lm, t, k)
  ELSE LockManagerB_Release(lm, t, k)

RECURSIVE ReleaseSeq(_, _, _, _)
\* Release(txn, key) for the keys ks in order, from every state of lms.
ReleaseSeq(lmk, lms, t, ks) ==
  IF ks = <<>> THEN lms
  ELSE ReleaseSeq(lmk, UNION {Release(lmk, l, t, Head(ks)) : l \in lms}, t, Tail(ks))

RECURSIVE WriteLockLoop(_, _, _, _, _, _, _, _)
\* Write-lock loop of RunLockingScheduler from ws[i] on.  A denial of a txn
\* with total > 1 releases every read key and the write keys ws[1..i].
WriteLockLoop(lmk, lm, t, rs, ws, i, total, blocked) ==
  IF i > Len(ws) THEN {[lm |-> lm, blocked |-> blocked]}
  ELSE LET r == WriteLock(lmk, lm, t, ws[i]) IN
       IF r.granted THEN WriteLockLoop(lmk, r.lm, t, rs, ws, i + 1, total, blocked)
       ELSE IF total > 1
            THEN {[lm |-> l, blocked |-> TRUE] :
                    l \in ReleaseSeq(lmk, {r.lm}, t, rs \o SubSeq(ws, 1, i))}
            ELSE WriteLockLoop(lmk, r.lm, t, rs, ws, i + 1, total, TRUE)

RECURSIVE ReadLockLoopKeepWaiting(_, _, _, _, _, _, _)
\* A read-lock loop that leaves a denied request queued whatever the number
\* of keys of the txn.
ReadLockLoopKeepWaiting(lmk, lm, t, rs, i, total, blocked) ==
  IF i > Len(rs) THEN {[lm |-> lm, blocked |-> blocked]}
  ELSE LET r == ReadLock(lmk, lm, t, rs[i])
       IN ReadLockLoopKeepWaiting(lmk, r.lm, t, rs, i + 1, total, blocked \/ ~r.granted)

RECURSIVE ReadLockLoop(_, _, _, _, _, _, _)
\* Read-lock loop of RunLockingScheduler from rs[i] on.  A denial of a txn
\* with total > 1 releases the read keys rs[1..i] and ends the loop.
ReadLockLoop(lmk, lm, t, rs, i, total, blocked) ==
  IF i > Len(rs) THEN {[lm |-> lm, blocked |-> blocked]}
  ELSE LET r == ReadLock(lmk, lm, t, rs[i]) IN
       IF r.granted THEN ReadLockLoop(lmk, r.lm, t, rs, i + 1, total, blocked)
       ELSE IF total > 1
            THEN {[lm |-> l, blocked |-> TRUE] :
                    l \in ReleaseSeq(lmk, {r.lm}, t, SubSeq(rs, 1, i))}
            ELSE ReadLockLoop(lmk, r.lm, t, rs, i + 1, total, TRUE)

\* Lock acquisition of RunLockingScheduler for one popped txn: the read
\* loop, then (if not blocked) the write loop, then ready_txns_.push_back
\* when nothing was denied.  Yields the set of [lm, blocked] outcomes.
AcquireLocks(lmk, lm, t, p) ==
  LET rs == SetToSeq(p.readset_)
      ws == SetToSeq(p.writeset_)
      total == Len(rs) + Len(ws)
      afterReads == ReadLockLoop(lmk, lm, t, rs, 1, total, FALSE)
      afterWrites == UNION {IF a.blocked THEN {a}
                            ELSE WriteLockLoop(lmk, a.lm, t, rs, ws, 1, total, FALSE)
                              : a \in afterReads}
  IN {IF a.blocked THEN a
      ELSE [a EXCEPT !.lm.ready_txns_ = Append(@, t)] : a \in afterWrites}

\* ---------------------------------------------------- single-version storage
\* The storage state is the record [data_, timestamps_, clock]; clock is the
\* wall clock GetTime() reads, which advances between any two readings.

\* Storage::Read: the stored value, when the key has a record.
Storage_Read(st, k) ==
  IF k \in DOMAIN st.data_ THEN [found |-> TRUE, value |-> st.data_[k]]
  ELSE [found |-> FALSE, value |-> 0]

\* Storage::Write: data_[key] = value; timestamps_[key] = GetTime().
Storage_Write(st, k, v) ==
  [data_ |-> MapPut(st.data_, k, v),
   timestamps_ |-> MapPut(st.timestamps_, k, st.clock),
   clock |-> st.clock + 1]

\* Storage::Timestamp: 0 for a key that was never written.
Storage_Timestamp(st, k) == MapGet0(st.timestamps_, k)

RECURSIVE ApplyWritesSeq(_, _, _)
ApplyWritesSeq(st, writes, ks) ==
  IF ks = <<>> THEN st
  ELSE ApplyWritesSeq(Storage_Write(st, Head(ks), writes[Head(ks)]), writes, Tail(ks))

\* An ApplyWrites that leaves the stored values alone.
ApplyWritesDropped(st, writes) == [st EXCEPT !.clock = @ + 1]

\* An ApplyWrites that stops after the first pair of writes_.
ApplyWritesFirstOnly(st, writes) ==
  ApplyWritesSeq(st, writes, SubSeq(SetToSeq(DOMAIN writes), 1, 1))

\* TxnProcessor::ApplyWrites (and the same loop inlined in the locking and
\* OCC schedulers): Write every pair of writes_ in map order.
ApplyWrites(st, writes) == ApplyWritesSeq(st, writes, SetToSeq(DOMAIN writes))

\* Storage::InitStorage: Write(i, 0, 0) for every key of the range.
Storage_InitStorage ==
  ApplyWritesSeq([data_ |-> EmptyMap, timestamps_ |-> EmptyMap, clock |-> 1],
                 [k \in Keys |-> 0], SetToSeq(Keys))

\* Validation that looks at the read set only.
OCCValidReadSetOnly(st, p, start) ==
  \A k \in p.readset_ : ~(Storage_Timestamp(st, k) > start)

\* Validation loops of RunOCCScheduler: valid iff no key of the read set or
\* the write set has Timestamp(key) > occ_start_time_.
OCCValid(st, p, start) ==
  \A k \in p.readset_ \cup p.writeset_ : ~(Storage_Timestamp(st, k) > start)

\* ------------------------------------------------------------- MVCC storage
\* mvcc_data_ maps a key to its deque of versions, front first; a key
\* without an entry is modelled by the empty sequence.
Version(value, mrid, vid) == [value_ |-> value, max_read_id_ |-> mrid, version_id_ |-> vid]

RECURSIVE MVCCReadScanAnyVersion(_, _, _, _, _)
\* A Read loop without the test version_id_ <= txn_unique_id.
MVCCReadScanAnyVersion(chain, j, t, maxlessthan, res) ==
  IF j > Len(chain) THEN [chain |-> chain, maxlessthan |-> maxlessthan, result |-> res]
  ELSE IF chain[j].version_id_ > maxlessthan
       THEN MVCCReadScanAnyVersion([chain EXCEPT ![j].max_read_id_ = t], j + 1, t,
                                   chain[j].version_id_, chain[j].value_)
       ELSE MVCCReadScanAnyVersion(chain, j + 1, t, maxlessthan, res)

RECURSIVE MVCCReadScan(_, _, _, _, _)
\* Loop of MVCCStorage::Read: every version whose version_id_ is <= the
\* reader and above the running maximum becomes the result and gets
\* max_read_id_ = txn_unique_id.
MVCCReadScan(chain, j, t, maxlessthan, res) ==
  IF j > Len(chain) THEN [chain |-> chain, maxlessthan |-> maxlessthan, result |-> res]
  ELSE IF chain[j].version_id_ <= t /\ chain[j].version_id_ > maxlessthan
       THEN MVCCReadScan([chain EXCEPT ![j].max_read_id_ = t], j + 1, t,
                         chain[j].version_id_, chain[j].value_)
       ELSE MVCCReadScan(chain, j + 1, t, maxlessthan, res)

\* MVCCStorage::Read: false when the key has no entry, else true.  set tells
\* whether *result was assigned.
MVCCStorage_Read(chain, t) ==
  IF chain = <<>>
  THEN [ret |-> FALSE, set |-> FALSE, value |-> 0, chain |-> chain]
  ELSE LET r == MVCCReadScan(chain, 1, t, -1, 0)
       IN [ret |-> TRUE, set |-> r.maxlessthan # -1, value |-> r.result, chain |-> r.chain]

RECURSIVE MVCCCheckScan(_, _, _)
MVCCCheckScan(chain, j, t) ==
  IF j > Len(chain) THEN TRUE
  ELSE IF chain[j].version_id_ <= t
       THEN ~(chain[j].max_read_id_ > t)
       ELSE MVCCCheckScan(chain, j + 1, t)

\* MVCCStorage::CheckWrite: false when the key has no entry; else decided by
\* the first version from the front with version_id_ <= txn_unique_id.
MVCCStorage_CheckWrite(chain, t) ==
  IF chain = <<>> THEN FALSE ELSE MVCCCheckScan(chain, 1, t)

\* A Write that puts the new version in the place of the newest one.
MVCCStorage_WriteInPlace(chain, v, t) ==
  IF chain = <<>> THEN <<Version(v, 0, t)>> ELSE <<Version(v, 0, t)>> \o Tail(chain)

\* A Write that always puts the new version at the front of the chain.
MVCCStorage_WritePushFront(chain, v, t) == <<Version(v, 0, t)>> \o chain

\* MVCCStorage::Write: insert before the first version with a smaller
\* version_id_, at the back when there is none.
MVCCStorage_Write(chain, v, t) ==
  LET new_version == Version(v, 0, t)
      smaller == {j \in 1..Len(chain) : t > chain[j].version_id_}
  IN IF smaller = {} THEN Append(chain, new_version)
     ELSE LET j == Min(smaller)
          IN SubSeq(chain, 1, j - 1) \o <<new_version>> \o SubSeq(chain, j, Len(chain))

\* MVCCStorage::InitStorage: Write(i, 0, 0) for every key of the range.
MVCCStorage_InitStorage ==
  [k \in AllKeys |-> IF k \in Keys THEN MVCCStorage_Write(<<>>, 0, 0) ELSE <<>>]

\* A check phase that fails when the transaction has nothing to write.
MVCCCheckAllNonEmpty(data, ks, t) ==
  /\ ks # <<>>
  /\ \A i \in DOMAIN ks : MVCCStorage_CheckWrite(data[ks[i]], t)

RECURSIVE MVCCCheckAll(_, _, _)
\* Check loop of MVCCExecuteTxn over the keys of writes_: failed as soon as
\* one CheckWrite returns false.
MVCCCheckAll(data, ks, t) ==
  IF ks = <<>> THEN TRUE
  ELSE IF ~MVCCStorage_CheckWrite(data[Head(ks)], t) THEN FALSE
       ELSE MVCCCheckAll(data, Tail(ks), t)

RECURSIVE MVCCApplyAll(_, _, _, _)
\* Write loop of MVCCExecuteTxn over the pairs of writes_.
MVCCApplyAll(data, writes, ks, t) ==
  IF ks = <<>> THEN data
  ELSE MVCCApplyAll([data EXCEPT ![Head(ks)] = MVCCStorage_Write(@, writes[Head(ks)], t)],
                    writes, Tail(ks), t)

\* ------------------------------------------------------------------- state
VARIABLES
  mode_,              \* CCMode of the TxnProcessor
  prog,               \* the transactions the client submits, in order
  submitted,          \* how many of them the client has passed to NewTxnRequest
  next_unique_id_,
  unique_id_, status_, reads_, writes_, occ_start_time_,   \* Txn fields
  txn_requests_, ready_txns_, completed_txns_, txn_results_,
  lock_table_, txn_waits_, numExclusiveWaiting,
  storage_,           \* Storage: [data_, timestamps_, clock]
  mvcc_data_, mutexs_,
  tasks,              \* bag of tasks handed to the thread pool and not finished
  sched_pc,           \* where the scheduler loop stands
  dead,               \* DIE was executed
  returned,           \* what GetTxnResult has handed to the client
  pushes,             \* per txn, how often it was pushed onto txn_results_
  idlog,              \* the ids handed out, in order
  call,               \* the last direct call of the storage interface
  committed_at_submit, \* per txn, the txns that had surfaced as COMMITTED
                      \* when the client submitted it
  denied,             \* the txns the locking scheduler left waiting in a lock
                      \* queue after a denied request
  queues_,            \* StaticThreadPool: per thread, its queue of tasks
  stopped_,           \* StaticThreadPool: the stop flag
  thread_pc,          \* per pool thread, where RunThread stands
  run_task,           \* the RunTask call in progress: [task, pc]
  accepted,           \* the tasks whose RunTask call found the pool active
  run_count           \* per task, how often Run() was called on it

vars == <<mode_, prog, submitted, next_unique_id_, unique_id_, status_, reads_,
          writes_, occ_start_time_, txn_requests_, ready_txns_, completed_txns_,
          txn_results_, lock_table_, txn_waits_, numExclusiveWaiting, storage_,
          mvcc_data_, mutexs_, tasks, sched_pc, dead, returned, pushes, idlog,
          call, committed_at_submit, denied, queues_, stopped_, thread_pc,
          run_task, accepted, run_count>>

\* The StaticThreadPool's queues, stop flag and threads.
poolVars == <<queues_, stopped_, thread_pc, run_task, accepted, run_count>>

cfgVars == <<mode_, prog, call, committed_at_submit, denied>>

txnVars == <<unique_id_, status_, reads_, writes_, occ_start_time_>>

lmVars == <<lock_table_, txn_waits_, numExclusiveWaiting, ready_txns_>>

mvccVars == <<mvcc_data_, mutexs_>>

idVars == <<next_unique_id_, unique_id_, idlog>>

Txns == 1..Len(prog)

Threads == 1..NumThreads

TaskIds == 1..MaxTasks

Modes == {"SERIAL", "LOCKING_EXCLUSIVE_ONLY", "LOCKING", "OCC", "P_OCC", "MVCC"}

LockingModes == {"LOCKING_EXCLUSIVE_ONLY", "LOCKING"}

\* RunScheduler: P_OCC runs RunSerialScheduler.
SerialModes == {"SERIAL", "P_OCC"}

LM == [lock_table_ |-> lock_table_, txn_waits_ |-> txn_waits_,
       numExclusiveWaiting |-> numExclusiveWaiting, ready_txns_ |-> ready_txns_]

SetLM(lm) ==
  /\ lock_table_' = lm.lock_table_
  /\ txn_waits_' = lm.txn_waits_
  /\ numExclusiveWaiting' = lm.numExclusiveWaiting
  /\ ready_txns_' = lm.ready_txns_

Task(t, pc, i) == [txn |-> t, pc |-> pc, i |-> i]

\* tp_.RunTask: the task is queued for a worker of the pool.
RunTask(task) == tasks' = tasks (+) SetToBag({task})

\* A worker moves on in, or finishes, the task it runs.
TaskStep(old, new) == tasks' = (tasks (-) SetToBag({old})) (+) SetToBag({new})

TaskDone(old) == tasks' = tasks (-) SetToBag({old})

\* TxnProcessor constructor: the state after construction, for a mode, the
\* list of transactions the client is going to submit and the lock table the
\* lock manager starts with.
InitWithTable(m, w, tbl) ==
  /\ mode_ = m
  /\ prog = w
  /\ submitted = 0
  /\ next_unique_id_ = 1
  /\ unique_id_ = [t \in 1..Len(w) |-> 0]
  /\ status_ = [t \in 1..Len(w) |-> "INCOMPLETE"]
  /\ reads_ = [t \in 1..Len(w) |-> EmptyMap]
  /\ writes_ = [t \in 1..Len(w) |-> EmptyMap]
  /\ occ_start_time_ = [t \in 1..Len(w) |-> 0]
  /\ txn_requests_ = <<>>
  /\ ready_txns_ = <<>>
  /\ completed_txns_ = <<>>
  /\ txn_results_ = <<>>
  /\ lock_table_ = tbl
  /\ txn_waits_ = EmptyMap
  /\ numExclusiveWaiting = [k \in Keys |-> 0]
  /\ storage_ = Storage_InitStorage
  /\ mvcc_data_ = MVCCStorage_InitStorage
  /\ mutexs_ = [k \in Keys |-> 0]
  /\ tasks = EmptyBag
  /\ sched_pc = "pop"
  /\ dead = FALSE
  /\ returned = <<>>
  /\ pushes = [t \in 1..Len(w) |-> 0]
  /\ idlog = <<>>
  /\ call = [op |-> "none"]
  /\ committed_at_submit = [t \in 1..Len(w) |-> {}]
  /\ denied = {}
  /\ queues_ = [q \in Threads |-> <<>>]
  /\ stopped_ = FALSE
  /\ thread_pc = [q \in Threads |-> "pop"]
  /\ run_task = [task |-> 0, pc |-> "idle"]
  /\ accepted = {}
  /\ run_count = [i \in TaskIds |-> 0]

\* The state after construction, every key's queue present and empty.
InitWith(m, w) == InitWithTable(m, w, [k \in Keys |-> <<>>])

\* ------------------------------------------------------------------ client
\* NewTxnRequest without `next_unique_id_++': the next admission gets the
\* same id again.
NewTxnRequestNoIncrement(t, reqs) ==
  /\ unique_id_' = [unique_id_ EXCEPT ![t] = next_unique_id_]
  /\ next_unique_id_' = next_unique_id_
  /\ txn_requests_' = Append(reqs, t)
  /\ idlog' = Append(idlog, next_unique_id_)

\* TxnProcessor::NewTxnRequest, under mutex_: stamp the next id, increment
\* it, push the txn onto txn_requests_ (reqs is the queue it is pushed on).
NewTxnRequest(t, reqs) ==
  /\ unique_id_' = [unique_id_ EXCEPT ![t] = next_unique_id_]
  /\ next_unique_id_' = next_unique_id_ + 1
  /\ txn_requests_' = Append(reqs, t)
  /\ idlog' = Append(idlog, next_unique_id_)

\* The client submits its next transaction.
Submit ==
  /\ ~dead
  /\ submitted < Len(prog)
  /\ next_unique_id_ <= MaxId
  /\ submitted' = submitted + 1
  /\ NewTxnRequest(submitted + 1, txn_requests_)
  /\ committed_at_submit' =
       [committed_at_submit EXCEPT ![submitted + 1] =
          {w \in Txns : pushes[w] >= 1 /\ status_[w] = "COMMITTED"}]
  /\ UNCHANGED <<poolVars, mode_, prog, call, denied, status_, reads_, writes_, occ_start_time_, lmVars,
                 completed_txns_, txn_results_, storage_, mvccVars, tasks,
                 sched_pc, dead, returned, pushes>>

\* txn_results_.Push(txn), with the count of pushes per txn.
PushResult(t) ==
  /\ txn_results_' = Append(txn_results_, t)
  /\ pushes' = [pushes EXCEPT ![t] = @ + 1]

\* TxnProcessor::GetTxnResult: pop the next result; the client sees the
\* status the txn has at that moment.
GetTxnResult ==
  /\ ~dead
  /\ txn_results_ # <<>>
  /\ txn_results_' = Tail(txn_results_)
  /\ returned' = Append(returned, [txn |-> Head(txn_results_),
                                   status |-> status_[Head(txn_results_)]])
  /\ UNCHANGED <<poolVars, cfgVars, submitted, idVars, status_, reads_, writes_,
                 occ_start_time_, txn_requests_, lmVars, completed_txns_,
                 storage_, mvccVars, tasks, sched_pc, dead, pushes>>

\* Read loops that hand out the value a key was initialised with instead of
\* the stored one.
ExecuteReadsInitial(st, reads, ks) ==
  LET hit == {ks[i] : i \in DOMAIN ks} \cap DOMAIN st.data_
  IN [k \in (DOMAIN reads) \cup hit |-> IF k \in hit THEN 0 ELSE reads[k]]

\* --------------------------------------------------------------- ExecuteTxn
RECURSIVE ExecuteReads(_, _, _)
\* Read loops of ExecuteTxn: reads_[key] = result for every key of ks that
\* Storage::Read finds.
ExecuteReads(st, reads, ks) ==
  IF ks = <<>> THEN reads
  ELSE LET r == Storage_Read(st, Head(ks))
       IN ExecuteReads(st, IF r.found THEN MapPut(reads, Head(ks), r.value) ELSE reads,
                       Tail(ks))

\* A worker starts ExecuteTxn: occ_start_time_ = GetTime().
ExecStart ==
  /\ ~dead
  /\ \E task \in BagToSet(tasks) :
       /\ task.pc = "start"
       /\ occ_start_time_' = [occ_start_time_ EXCEPT ![task.txn] = storage_.clock]
       /\ storage_' = [storage_ EXCEPT !.clock = @ + 1]
       /\ TaskStep(task, Task(task.txn, "read", 1))
  /\ UNCHANGED <<poolVars, cfgVars, submitted, idVars, status_, reads_, writes_,
                 txn_requests_, lmVars, completed_txns_, txn_results_, mvccVars,
                 sched_pc, dead, returned, pushes>>

\* A worker reads the next key of the read set, then of the write set.
ExecRead ==
  /\ ~dead
  /\ \E task \in BagToSet(tasks) :
       LET t == task.txn
           ks == KeySeq(prog[t])
       IN /\ task.pc = "read"
          /\ task.i <= Len(ks)
          /\ reads_' = [reads_ EXCEPT ![t] = ExecuteReads(storage_, @, <<ks[task.i]>>)]
          /\ TaskStep(task, Task(t, "read", task.i + 1))
  /\ UNCHANGED <<poolVars, cfgVars, submitted, idVars, status_, writes_, occ_start_time_,
                 txn_requests_, lmVars, completed_txns_, txn_results_, storage_,
                 mvccVars, sched_pc, dead, returned, pushes>>

\* An ExecuteTxn whose worker applies the writes itself after Run().
ExecRunApplying ==
  /\ ~dead
  /\ \E task \in BagToSet(tasks) :
       LET t == task.txn
           r == Run(prog[t], reads_[t], writes_[t])
       IN /\ task.pc = "read"
          /\ task.i > Len(KeySeq(prog[t]))
          /\ status_' = [status_ EXCEPT ![t] = r.status]
          /\ writes_' = [writes_ EXCEPT ![t] = r.writes]
          /\ storage_' = ApplyWrites(storage_, r.writes)
          /\ completed_txns_' = Append(completed_txns_, t)
          /\ TaskDone(task)
  /\ UNCHANGED <<poolVars, cfgVars, submitted, idVars, reads_, occ_start_time_,
                 txn_requests_, lmVars, txn_results_, mvccVars,
                 sched_pc, dead, returned, pushes>>

\* A worker runs the program logic and hands the txn back:
\* txn->Run(); completed_txns_.Push(txn).
ExecRun ==
  /\ ~dead
  /\ \E task \in BagToSet(tasks) :
       LET t == task.txn
           r == Run(prog[t], reads_[t], writes_[t])
       IN /\ task.pc = "read"
          /\ task.i > Len(KeySeq(prog[t]))
          /\ status_' = [status_ EXCEPT ![t] = r.status]
          /\ writes_' = [writes_ EXCEPT ![t] = r.writes]
          /\ completed_txns_' = Append(completed_txns_, t)
          /\ TaskDone(task)
  /\ UNCHANGED <<poolVars, cfgVars, submitted, idVars, reads_, occ_start_time_,
                 txn_requests_, lmVars, txn_results_, storage_, mvccVars,
                 sched_pc, dead, returned, pushes>>

\* ---------------------------------------------------------- serial scheduler
\* One iteration of RunSerialScheduler that pops a request: ExecuteTxn on
\* the scheduler thread, then commit or abort, then publish.
RunSerialScheduler ==
  /\ ~dead
  /\ mode_ \in SerialModes
  /\ txn_requests_ # <<>>
  /\ LET t == Head(txn_requests_)
         p == prog[t]
         rd == ExecuteReads(storage_, reads_[t], KeySeq(p))
         r == Run(p, rd, writes_[t])
         st1 == [storage_ EXCEPT !.clock = @ + 1]
     IN /\ txn_requests_' = Tail(txn_requests_)
        /\ occ_start_time_' = [occ_start_time_ EXCEPT ![t] = storage_.clock]
        /\ reads_' = [reads_ EXCEPT ![t] = rd]
        /\ writes_' = [writes_ EXCEPT ![t] = r.writes]
        /\ completed_txns_' = Append(completed_txns_, t)
        /\ IF r.status = "COMPLETED_C"
           THEN /\ storage_' = ApplyWrites(st1, r.writes)
                /\ status_' = [status_ EXCEPT ![t] = "COMMITTED"]
                /\ PushResult(t)
                /\ UNCHANGED dead
           ELSE IF r.status = "COMPLETED_A"
           THEN /\ storage_' = st1
                /\ status_' = [status_ EXCEPT ![t] = "ABORTED"]
                /\ PushResult(t)
                /\ UNCHANGED dead
           ELSE /\ storage_' = st1
                /\ status_' = [status_ EXCEPT ![t] = r.status]
                /\ dead' = TRUE
                /\ UNCHANGED <<txn_results_, pushes>>
  /\ UNCHANGED <<poolVars, cfgVars, submitted, idVars, lmVars, mvccVars, tasks,
                 sched_pc, returned>>

\* --------------------------------------------------------- locking scheduler
\* RunLockingScheduler, first part of an iteration: pop a request and ask
\* for its locks; ready when all were granted, restarted through
\* NewTxnRequest when one was denied and the txn touches more than one key.
LockingPop ==
  /\ ~dead
  /\ mode_ \in LockingModes
  /\ sched_pc = "pop"
  /\ txn_requests_ # <<>>
  /\ LET t == Head(txn_requests_)
         p == prog[t]
         total == Cardinality(p.readset_) + Cardinality(p.writeset_)
     IN \E o \in AcquireLocks(mode_, LM, t, p) :
          /\ SetLM(o.lm)
          /\ IF o.blocked /\ total > 1
             THEN /\ next_unique_id_ <= MaxId
                  /\ NewTxnRequest(t, Tail(txn_requests_))
             ELSE /\ txn_requests_' = Tail(txn_requests_)
                  /\ UNCHANGED idVars
          /\ denied' = IF o.blocked /\ total = 1 THEN denied \cup {t} ELSE denied
  /\ sched_pc' = "completed"
  /\ UNCHANGED <<poolVars, mode_, prog, call, committed_at_submit, submitted, status_, reads_, writes_, occ_start_time_,
                 completed_txns_, txn_results_, storage_, mvccVars, tasks, dead,
                 returned, pushes>>

\* RunLockingScheduler, one round of the completed_txns_ loop: commit or
\* abort the txn, release its read and write locks, publish it.
LockingCompleted ==
  /\ ~dead
  /\ mode_ \in LockingModes
  /\ sched_pc = "completed"
  /\ completed_txns_ # <<>>
  /\ LET t == Head(completed_txns_)
         p == prog[t]
     IN IF status_[t] \in {"COMPLETED_A", "COMPLETED_C"}
        THEN /\ completed_txns_' = Tail(completed_txns_)
             /\ IF status_[t] = "COMPLETED_A"
                THEN /\ status_' = [status_ EXCEPT ![t] = "ABORTED"]
                     /\ UNCHANGED storage_
                ELSE /\ storage_' = ApplyWrites(storage_, writes_[t])
                     /\ status_' = [status_ EXCEPT ![t] = "COMMITTED"]
             /\ \E lm \in ReleaseSeq(mode_, {LM}, t, KeySeq(p)) : SetLM(lm)
             /\ PushResult(t)
             /\ UNCHANGED dead
        ELSE /\ completed_txns_' = Tail(completed_txns_)
             /\ dead' = TRUE
             /\ UNCHANGED <<status_, storage_, lmVars, txn_results_, pushes>>
  /\ UNCHANGED <<poolVars, cfgVars, submitted, idVars, reads_, writes_, occ_start_time_,
                 txn_requests_, mvccVars, tasks, sched_pc, returned>>

\* RunLockingScheduler, one round of the ready_txns_ loop: start the next
\* ready txn on a worker.
LockingDispatch ==
  /\ ~dead
  /\ mode_ \in LockingModes
  /\ sched_pc = "ready"
  /\ ready_txns_ # <<>>
  /\ ready_txns_' = Tail(ready_txns_)
  /\ RunTask(Task(Head(ready_txns_), "start", 0))
  /\ UNCHANGED <<poolVars, cfgVars, submitted, idVars, status_, reads_, writes_,
                 occ_start_time_, txn_requests_, lock_table_, txn_waits_,
                 numExclusiveWaiting, completed_txns_, txn_results_, storage_,
                 mvccVars, sched_pc, dead, returned, pushes>>

\* The scheduler finds txn_requests_ empty and goes on to completed_txns_.
PopEmpty ==
  /\ ~dead
  /\ mode_ \in LockingModes \cup {"OCC"}
  /\ sched_pc = "pop"
  /\ txn_requests_ = <<>>
  /\ sched_pc' = "completed"
  /\ UNCHANGED <<poolVars, cfgVars, submitted, idVars, status_, reads_, writes_,
                 occ_start_time_, txn_requests_, lmVars, completed_txns_,
                 txn_results_, storage_, mvccVars, tasks, dead, returned, pushes>>

\* The scheduler finds completed_txns_ empty and leaves that loop.
CompletedEmpty ==
  /\ ~dead
  /\ mode_ \in LockingModes \cup {"OCC"}
  /\ sched_pc = "completed"
  /\ completed_txns_ = <<>>
  /\ sched_pc' = IF mode_ = "OCC" THEN "pop" ELSE "ready"
  /\ UNCHANGED <<poolVars, cfgVars, submitted, idVars, status_, reads_, writes_,
                 occ_start_time_, txn_requests_, lmVars, completed_txns_,
                 txn_results_, storage_, mvccVars, tasks, dead, returned, pushes>>

\* The locking scheduler finds ready_txns_ empty and starts the next iteration.
ReadyEmpty ==
  /\ ~dead
  /\ mode_ \in LockingModes
  /\ sched_pc = "ready"
  /\ ready_txns_ = <<>>
  /\ sched_pc' = "pop"
  /\ UNCHANGED <<poolVars, cfgVars, submitted, idVars, status_, reads_, writes_,
                 occ_start_time_, txn_requests_, lmVars, completed_txns_,
                 txn_results_, storage_, mvccVars, tasks, dead, returned, pushes>>

\* ------------------------------------------------------------- OCC scheduler
\* RunOCCScheduler, first part of an iteration: pop a request and start it
\* on a worker.
OCCPop ==
  /\ ~dead
  /\ mode_ = "OCC"
  /\ sched_pc = "pop"
  /\ txn_requests_ # <<>>
  /\ txn_requests_' = Tail(txn_requests_)
  /\ RunTask(Task(Head(txn_requests_), "start", 0))
  /\ sched_pc' = "completed"
  /\ UNCHANGED <<poolVars, cfgVars, submitted, idVars, status_, reads_, writes_,
                 occ_start_time_, lmVars, completed_txns_, txn_results_, storage_,
                 mvccVars, dead, returned, pushes>>

\* RunOCCScheduler, one round of the completed_txns_ loop: validate the
\* finished txn, then abort, commit, restart or DIE.  The cleanup of the
\* restart calls reads_.empty() and writes_.empty(), which change nothing.
OCCCompleted ==
  /\ ~dead
  /\ mode_ = "OCC"
  /\ sched_pc = "completed"
  /\ completed_txns_ # <<>>
  /\ LET finishedTask == Head(completed_txns_)
         valid == OCCValid(storage_, prog[finishedTask], occ_start_time_[finishedTask])
         st == status_[finishedTask]
     IN /\ completed_txns_' = Tail(completed_txns_)
        /\ IF st = "COMPLETED_A"
           THEN /\ status_' = [status_ EXCEPT ![finishedTask] = "ABORTED"]
                /\ PushResult(finishedTask)
                /\ UNCHANGED <<storage_, idVars, txn_requests_, dead>>
           ELSE IF valid /\ st = "COMPLETED_C"
           THEN /\ storage_' = ApplyWrites(storage_, writes_[finishedTask])
                /\ status_' = [status_ EXCEPT ![finishedTask] = "COMMITTED"]
                /\ PushResult(finishedTask)
                /\ UNCHANGED <<idVars, txn_requests_, dead>>
           ELSE IF ~valid /\ st = "COMPLETED_C"
           THEN /\ next_unique_id_ <= MaxId
                /\ status_' = [status_ EXCEPT ![finishedTask] = "INCOMPLETE"]
                /\ NewTxnRequest(finishedTask, txn_requests_)
                /\ UNCHANGED <<storage_, txn_results_, pushes, dead>>
           ELSE /\ dead' = TRUE
                /\ UNCHANGED <<status_, storage_, idVars, txn_requests_,
                               txn_results_, pushes>>
  /\ UNCHANGED <<poolVars, cfgVars, submitted, reads_, writes_, occ_start_time_, lmVars,
                 mvccVars, tasks, sched_pc, returned>>

\* ------------------------------------------------------------ MVCC scheduler
\* Values an uninitialised `Value result' can hold when Read returns true
\* without assigning it.
UninitValues == {0, 1}

\* One iteration of RunMVCCScheduler that pops a request: start
\* MVCCExecuteTxn on a worker.
RunMVCCScheduler ==
  /\ ~dead
  /\ mode_ = "MVCC"
  /\ txn_requests_ # <<>>
  /\ txn_requests_' = Tail(txn_requests_)
  /\ RunTask(Task(Head(txn_requests_), "mvcc_read", 1))
  /\ UNCHANGED <<poolVars, cfgVars, submitted, idVars, status_, reads_, writes_,
                 occ_start_time_, lmVars, completed_txns_, txn_results_, storage_,
                 mvccVars, sched_pc, dead, returned, pushes>>

\* MVCCExecuteTxn, one round of the read loops: Lock(key); Read(key,
\* &result, unique_id_); Unlock(key).
MVCCRead ==
  /\ ~dead
  /\ mode_ = "MVCC"
  /\ \E task \in BagToSet(tasks) :
       LET t == task.txn
           ks == KeySeq(prog[t])
       IN /\ task.pc = "mvcc_read"
          /\ task.i <= Len(ks)
          /\ mutexs_[ks[task.i]] = 0
          /\ LET k == ks[task.i]
                 r == MVCCStorage_Read(mvcc_data_[k], unique_id_[t])
             IN /\ mvcc_data_' = [mvcc_data_ EXCEPT ![k] = r.chain]
                /\ IF r.ret
                   THEN \E v \in (IF r.set THEN {r.value} ELSE UninitValues) :
                          reads_' = [reads_ EXCEPT ![t] = MapPut(@, k, v)]
                   ELSE UNCHANGED reads_
          /\ TaskStep(task, Task(t, "mvcc_read", task.i + 1))
  /\ UNCHANGED <<poolVars, cfgVars, submitted, idVars, status_, writes_, occ_start_time_,
                 txn_requests_, lmVars, completed_txns_, txn_results_, storage_,
                 mutexs_, sched_pc, dead, returned, pushes>>

\* MVCCExecuteTxn: txn->Run() after the read loops.
MVCCRun ==
  /\ ~dead
  /\ mode_ = "MVCC"
  /\ \E task \in BagToSet(tasks) :
       LET t == task.txn
           r == Run(prog[t], reads_[t], writes_[t])
       IN /\ task.pc = "mvcc_read"
          /\ task.i > Len(KeySeq(prog[t]))
          /\ status_' = [status_ EXCEPT ![t] = r.status]
          /\ writes_' = [writes_ EXCEPT ![t] = r.writes]
          /\ TaskStep(task, Task(t, "mvcc_lock", 1))
  /\ UNCHANGED <<poolVars, cfgVars, submitted, idVars, reads_, occ_start_time_,
                 txn_requests_, lmVars, completed_txns_, txn_results_, storage_,
                 mvccVars, sched_pc, dead, returned, pushes>>

\* A round of "Lock the whole write-set" that moves on without taking the
\* key's mutex.
MVCCLockNoMutex ==
  /\ ~dead
  /\ mode_ = "MVCC"
  /\ \E task \in BagToSet(tasks) :
       /\ task.pc = "mvcc_lock"
       /\ task.i <= Cardinality(prog[task.txn].writeset_)
       /\ TaskStep(task, Task(task.txn, "mvcc_lock", task.i + 1))
  /\ UNCHANGED <<poolVars, cfgVars, submitted, idVars, status_, reads_, writes_,
                 occ_start_time_, txn_requests_, lmVars, completed_txns_,
                 txn_results_, storage_, mvccVars, sched_pc, dead, returned,
                 pushes>>

\* The write set iterated by one transaction from its largest key down and
\* by the others from the smallest key up.
WriteSetOrderMixed(t) ==
  LET ws == SetToSeq(prog[t].writeset_)
  IN IF t = 1 THEN [i \in 1..Len(ws) |-> ws[Len(ws) + 1 - i]] ELSE ws

\* The order in which "Lock the whole write-set" takes the mutexes: the
\* iteration order of the set writeset_, smallest key first.
WriteSetOrder(t) == SetToSeq(prog[t].writeset_)

\* MVCCExecuteTxn, one round of "Lock the whole write-set": Lock(key) waits
\* until the key's mutex is free.
MVCCLock ==
  /\ ~dead
  /\ mode_ = "MVCC"
  /\ \E task \in BagToSet(tasks) :
       LET t == task.txn
           ws == WriteSetOrder(t)
       IN /\ task.pc = "mvcc_lock"
          /\ task.i <= Len(ws)
          /\ mutexs_[ws[task.i]] = 0
          /\ mutexs_' = [mutexs_ EXCEPT ![ws[task.i]] = t]
          /\ TaskStep(task, Task(t, "mvcc_lock", task.i + 1))
  /\ UNCHANGED <<poolVars, cfgVars, submitted, idVars, status_, reads_, writes_,
                 occ_start_time_, txn_requests_, lmVars, completed_txns_,
                 txn_results_, storage_, mvcc_data_, sched_pc, dead, returned,
                 pushes>>

\* An MVCCAbortTransaction that leaves reads_ and writes_ as they are.
MVCCAbortKeepingMaps(t) ==
  /\ mutexs_' = [k \in Keys |-> IF k \in prog[t].writeset_ THEN 0 ELSE mutexs_[k]]
  /\ UNCHANGED <<reads_, writes_>>
  /\ status_' = [status_ EXCEPT ![t] = "INCOMPLETE"]
  /\ unique_id_' = [unique_id_ EXCEPT ![t] = next_unique_id_]
  /\ next_unique_id_' = next_unique_id_ + 1
  /\ txn_requests_' = Append(txn_requests_, t)
  /\ idlog' = Append(idlog, next_unique_id_)

\* TxnProcessor::MVCCAbortTransaction: unlock the write set, clear reads_
\* and writes_, status INCOMPLETE, new id and back onto txn_requests_.
MVCCAbortTransaction(t) ==
  /\ mutexs_' = [k \in Keys |-> IF k \in prog[t].writeset_ THEN 0 ELSE mutexs_[k]]
  /\ reads_' = [reads_ EXCEPT ![t] = EmptyMap]
  /\ writes_' = [writes_ EXCEPT ![t] = EmptyMap]
  /\ status_' = [status_ EXCEPT ![t] = "INCOMPLETE"]
  /\ unique_id_' = [unique_id_ EXCEPT ![t] = next_unique_id_]
  /\ next_unique_id_' = next_unique_id_ + 1
  /\ txn_requests_' = Append(txn_requests_, t)
  /\ idlog' = Append(idlog, next_unique_id_)

\* MVCCExecuteTxn with the whole write set locked: CheckWrite for the keys
\* of writes_; on a failure MVCCAbortTransaction, else Write every pair,
\* unlock the write set and push the txn onto txn_results_.
MVCCFinish ==
  /\ ~dead
  /\ mode_ = "MVCC"
  /\ \E task \in BagToSet(tasks) :
       LET t == task.txn
           wk == SetToSeq(DOMAIN writes_[t])
           failed == ~MVCCCheckAll(mvcc_data_, wk, unique_id_[t])
       IN /\ task.pc = "mvcc_lock"
          /\ task.i > Cardinality(prog[t].writeset_)
          /\ IF failed
             THEN /\ next_unique_id_ <= MaxId
                  /\ MVCCAbortTransaction(t)
                  /\ UNCHANGED <<mvcc_data_, txn_results_, pushes>>
             ELSE /\ mvcc_data_' = MVCCApplyAll(mvcc_data_, writes_[t], wk, unique_id_[t])
                  /\ mutexs_' = [k \in Keys |-> IF k \in prog[t].writeset_ THEN 0
                                                ELSE mutexs_[k]]
                  /\ PushResult(t)
                  /\ UNCHANGED <<idVars, status_, reads_, writes_, txn_requests_>>
          /\ TaskDone(task)
  /\ UNCHANGED <<poolVars, cfgVars, submitted, occ_start_time_, lmVars, completed_txns_,
                 storage_, sched_pc, dead, returned>>

\* ---------------------------------------------------------------- workloads
\* The RMW of the no-lost-update test: reads keys 1 and 2, increments key 3.
RMW123 == RMW({1, 2}, {3})

\* Three concurrent copies of the read-modify-write transaction.
WorkloadRMW == <<RMW123, RMW123, RMW123>>

\* A transaction whose read set and write set share key 1, and a writer of
\* key 1.
WorkloadOverlap == <<RMW({1}, {1}), RMW({}, {1})>>

\* Put({1: 5}), an Expect that needs it and an Expect that needs the
\* initial value.
WorkloadPutExpect == <<Put(1 :> 5), Expect(1 :> 5), Expect(1 :> 0)>>

\* A writer of keys 1 and 2 with single-key readers of key 2 and key 1.
WorkloadReaders == <<RMW({}, {1, 2}), RMW({2}, {}), RMW({1}, {})>>

Workloads == {WorkloadRMW, WorkloadOverlap, WorkloadPutExpect, WorkloadReaders}

\* ----------------------------------------------------------- specifications
NextLocking ==
  \/ Submit \/ GetTxnResult
  \/ LockingPop \/ LockingCompleted \/ LockingDispatch
  \/ PopEmpty \/ CompletedEmpty \/ ReadyEmpty
  \/ ExecStart \/ ExecRead \/ ExecRun

NextOCC ==
  \/ Submit \/ GetTxnResult
  \/ OCCPop \/ OCCCompleted \/ PopEmpty \/ CompletedEmpty
  \/ ExecStart \/ ExecRead \/ ExecRun

NextSerial == Submit \/ GetTxnResult \/ RunSerialScheduler

NextMVCC ==
  \/ Submit \/ GetTxnResult
  \/ RunMVCCScheduler \/ MVCCRead \/ MVCCRun \/ MVCCLock \/ MVCCFinish

Next ==
  \/ Submit \/ GetTxnResult
  \/ RunSerialScheduler
  \/ LockingPop \/ LockingCompleted \/ LockingDispatch
  \/ OCCPop \/ OCCCompleted
  \/ PopEmpty \/ CompletedEmpty \/ ReadyEmpty
  \/ ExecStart \/ ExecRead \/ ExecRun
  \/ RunMVCCScheduler \/ MVCCRead \/ MVCCRun \/ MVCCLock \/ MVCCFinish

Init == \E m \in Modes, w \in Workloads : InitWith(m, w)

InitLockA == \E w \in Workloads : InitWith("LOCKING_EXCLUSIVE_ONLY", w)

InitLockB == \E w \in Workloads : InitWith("LOCKING", w)

\* Either lock manager.
InitLocking == \E m \in LockingModes, w \in Workloads : InitWith(m, w)

InitOCC == \E w \in Workloads : InitWith("OCC", w)

InitSerial == \E m \in SerialModes, w \in Workloads : InitWith(m, w)

InitMVCC == \E w \in Workloads : InitWith("MVCC", w)

\* Every mode.
Spec == Init /\ [][Next]_vars

SpecLockA == InitLockA /\ [][NextLocking]_vars

SpecLockB == InitLockB /\ [][NextLocking]_vars

SpecLocking == InitLocking /\ [][NextLocking]_vars

SpecOCC == InitOCC /\ [][NextOCC]_vars

SpecSerial == InitSerial /\ [][NextSerial]_vars

SpecMVCC == InitMVCC /\ [][NextMVCC]_vars

\* A client whose second program ends without declaring an outcome.
WorkloadUnfinished == <<Put(1 :> 5), Unfinished(1 :> 7)>>

InitUnfinished == \E m \in Modes : InitWith(m, WorkloadUnfinished)

SpecUnfinished == InitUnfinished /\ [][Next]_vars

\* ------------------------------------------------- direct use of MVCCStorage
\* Largest txn_unique_id passed to a direct call of the storage interface.
MaxStoreId == 3

\* Largest number of versions the keys of StoreKeys hold together.
MaxVersions == 2

\* One key of the initialised range and one key outside of it.
StoreKeys == {1, AbsentKey}

StoreIds == 0..MaxStoreId

StoreValues == {1, 2}

StoreVersions == Len(mvcc_data_[1]) + Len(mvcc_data_[AbsentKey])

storeRest == <<poolVars, mode_, prog, submitted, next_unique_id_, unique_id_, status_, reads_,
               writes_, occ_start_time_, txn_requests_, ready_txns_, completed_txns_,
               txn_results_, lock_table_, txn_waits_, numExclusiveWaiting, storage_,
               mutexs_, tasks, sched_pc, dead, returned, pushes, idlog,
               committed_at_submit, denied>>

\* A caller invokes MVCCStorage::Write(key, value, version_id).
StoreWrite ==
  /\ StoreVersions < MaxVersions
  /\ \E k \in StoreKeys, v \in StoreValues, t \in StoreIds :
       /\ mvcc_data_' = [mvcc_data_ EXCEPT ![k] = MVCCStorage_Write(@, v, t)]
       /\ call' = [op |-> "Write", key |-> k, id |-> t, ret |-> TRUE,
                   set |-> FALSE, value |-> v]
  /\ UNCHANGED storeRest

\* A caller invokes MVCCStorage::Read(key, &result, txn_unique_id) with an
\* uninitialised result; call.value is what result holds afterwards when the
\* call returned true.
StoreRead ==
  /\ \E k \in StoreKeys, t \in StoreIds :
       LET r == MVCCStorage_Read(mvcc_data_[k], t)
       IN /\ mvcc_data_' = [mvcc_data_ EXCEPT ![k] = r.chain]
          /\ \E v \in (IF r.set THEN {r.value}
                       ELSE IF r.ret THEN UninitValues ELSE {0}) :
               call' = [op |-> "Read", key |-> k, id |-> t, ret |-> r.ret,
                        set |-> r.set, value |-> v]
  /\ UNCHANGED storeRest

\* A caller invokes MVCCStorage::CheckWrite(key, txn_unique_id).
StoreCheckWrite ==
  /\ \E k \in StoreKeys, t \in StoreIds :
       call' = [op |-> "CheckWrite", key |-> k, id |-> t,
                ret |-> MVCCStorage_CheckWrite(mvcc_data_[k], t),
                set |-> FALSE, value |-> 0]
  /\ UNCHANGED <<storeRest, mvcc_data_>>

NextStore == StoreWrite \/ StoreRead \/ StoreCheckWrite

\* The storage right after InitStorage, with no transaction submitted.
InitStore == InitWith("MVCC", <<>>)

SpecMVCCStore == InitStore /\ [][NextStore]_vars

\* Longest sequence of Write calls in the runs of Write and CheckWrite alone.
MaxWrites == 2

\* A caller invokes MVCCStorage::Write, in a sequence of at most MaxWrites
\* such calls.
StoreWriteSeq ==
  /\ StoreVersions <= MaxWrites
  /\ \E k \in StoreKeys, v \in StoreValues, t \in StoreIds :
       /\ mvcc_data_' = [mvcc_data_ EXCEPT ![k] = MVCCStorage_Write(@, v, t)]
       /\ call' = [op |-> "Write", key |-> k, id |-> t, ret |-> TRUE,
                   set |-> FALSE, value |-> v]
  /\ UNCHANGED storeRest

NextWrites == StoreWriteSeq \/ StoreCheckWrite

SpecMVCCWrites == InitStore /\ [][NextWrites]_vars

\* Two readers of key 1, a writer of it and a third reader.
WorkloadReadersWriterReader ==
  <<RMW({1}, {}), RMW({1}, {}), RMW({}, {1}), RMW({1}, {})>>

InitFourSingleKey == \E m \in LockingModes : InitWith(m, WorkloadReadersWriterReader)

SpecFourSingleKey == InitFourSingleKey /\ [][NextLocking]_vars

\* ------------------------------------------------ direct use of LockManager
\* Most requests the queues of all keys hold together.
MaxQueued == 3

\* Largest wait count a caller of ReadLock/WriteLock may already have.
MaxWaits == 1

\* Most transactions ready_txns_ holds when Release is called.
MaxReady == 1

\* The two transactions whose pointers the caller passes.
WorkloadCallers == <<Noop, Noop>>

\* The keys the caller passes.
LockKeys == {1, 2}

\* lock_table_[key] of a key whose deque exists; a key without one has no
\* entry in lock_table_.
QueueAt(tbl, k) == IF k \in DOMAIN tbl THEN tbl[k] ELSE <<>>

Queued == Len(QueueAt(lock_table_, 1)) + Len(QueueAt(lock_table_, 2))

\* The manager with the deque of every key of D, created empty when it did
\* not exist.
WithQueues(lm, D) == [lm EXCEPT !.lock_table_ = [k \in D |-> QueueAt(@, k)]]

lockRest == <<poolVars, mode_, prog, submitted, next_unique_id_, unique_id_, status_, reads_,
              writes_, occ_start_time_, txn_requests_, completed_txns_,
              txn_results_, storage_, mvcc_data_, mutexs_, tasks, sched_pc,
              returned, pushes, idlog, committed_at_submit, denied>>

\* A caller invokes lm->WriteLock(txn, key).
CallWriteLock ==
  /\ ~dead
  /\ Queued < MaxQueued
  /\ \E t \in Txns, k \in LockKeys :
       /\ MapGet0(txn_waits_, t) < MaxWaits
       /\ numExclusiveWaiting[k] < MaxQueued
       /\ LET r == WriteLock(mode_, WithQueues(LM, Keys), t, k)
          IN /\ SetLM(WithQueues(r.lm, DOMAIN lock_table_ \cup {k}))
             /\ call' = [op |-> "WriteLock", txn |-> t, key |-> k,
                         ret |-> r.granted]
  /\ UNCHANGED <<lockRest, dead>>

\* A caller invokes lm->ReadLock(txn, key).
CallReadLock ==
  /\ ~dead
  /\ Queued < MaxQueued
  /\ \E t \in Txns, k \in LockKeys :
       /\ MapGet0(txn_waits_, t) < MaxWaits
       /\ LET r == ReadLock(mode_, WithQueues(LM, Keys), t, k)
          IN /\ SetLM(WithQueues(r.lm, DOMAIN lock_table_ \cup {k}))
             /\ call' = [op |-> "ReadLock", txn |-> t, key |-> k,
                         ret |-> r.granted]
  /\ UNCHANGED <<lockRest, dead>>

\* A caller invokes lm->Release(txn, key).  LockManagerA::Release
\* dereferences lock_table_[key], a null pointer when no request was ever
\* made for the key: the process is killed or the call returns with the
\* manager as it was.  LockManagerB::Release creates the deque.
CallRelease ==
  /\ ~dead
  /\ Len(ready_txns_) < MaxReady
  /\ \E t \in Txns, k \in LockKeys :
       /\ numExclusiveWaiting[k] >= 0
       /\ call' = [op |-> "Release", txn |-> t, key |-> k, ret |-> TRUE]
       /\ IF mode_ = "LOCKING_EXCLUSIVE_ONLY" /\ k \notin DOMAIN lock_table_
          THEN /\ dead' \in {TRUE, FALSE}
               /\ UNCHANGED lmVars
          ELSE /\ \E lm \in Release(mode_, WithQueues(LM, Keys), t, k) :
                    SetLM(WithQueues(lm, DOMAIN lock_table_ \cup {k}))
               /\ UNCHANGED dead
  /\ UNCHANGED lockRest

\* A caller invokes lm->Status(key, &owners) with an empty owners vector.
\* LockManagerA::Status dereferences lock_table_[key], a null pointer when no
\* request was ever made for the key: the process is killed or the call
\* returns either mode.  LockManagerB::Status creates the deque.
CallStatus ==
  /\ ~dead
  /\ \E k \in LockKeys :
       IF mode_ = "LOCKING_EXCLUSIVE_ONLY"
       THEN IF k \in DOMAIN lock_table_
            THEN /\ call' = [op |-> "Status", key |-> k,
                             ret |-> LockManagerA_Status(lock_table_[k]).mode,
                             owners |-> LockManagerA_Status(lock_table_[k]).owners]
                 /\ UNCHANGED <<lmVars, dead>>
            ELSE /\ \E md \in {"UNLOCKED", "EXCLUSIVE"}, d \in {TRUE, FALSE} :
                      /\ dead' = d
                      /\ call' = [op |-> "Status", key |-> k,
                                  ret |-> IF d THEN "KILLED" ELSE md,
                                  owners |-> <<>>]
                 /\ UNCHANGED lmVars
       ELSE /\ call' = [op |-> "Status", key |-> k,
                        ret |-> LockManagerB_Status(QueueAt(lock_table_, k)).mode,
                        owners |-> LockManagerB_Status(QueueAt(lock_table_, k)).owners]
            /\ SetLM(WithQueues(LM, DOMAIN lock_table_ \cup {k}))
            /\ UNCHANGED dead
  /\ UNCHANGED lockRest

\* The caller takes the transaction at the front of ready_txns_.
CallTakeReady ==
  /\ ~dead
  /\ ready_txns_ # <<>>
  /\ ready_txns_' = Tail(ready_txns_)
  /\ call' = [op |-> "TakeReady", txn |-> Head(ready_txns_)]
  /\ UNCHANGED <<lockRest, dead, lock_table_, txn_waits_, numExclusiveWaiting>>

NextLockCalls ==
  CallWriteLock \/ CallReadLock \/ CallRelease \/ CallStatus \/ CallTakeReady

\* A lock manager right after construction: no key has a deque.
InitLockCalls == \E m \in LockingModes : InitWithTable(m, WorkloadCallers, EmptyMap)

SpecLockCalls == InitLockCalls /\ [][NextLockCalls]_vars

\* A LockManagerA right after construction.
InitLockCallsA == InitWithTable("LOCKING_EXCLUSIVE_ONLY", WorkloadCallers, EmptyMap)

SpecLockCallsA == InitLockCallsA /\ [][NextLockCalls]_vars

\* Pairs of writers whose write sets are equal, overlap in one key, or
\* overlap in one key while each reads the key only the other writes.
WorkloadWriters ==
  {<<RMW({}, {1, 2}), RMW({}, {1, 2})>>,
   <<RMW({}, {1, 2}), RMW({}, {2, 3})>>,
   <<RMW({1}, {2, 3}), RMW({2}, {1, 3})>>}

InitWriters == \E w \in WorkloadWriters : InitWith("MVCC", w)

\* The scheduler thread keeps looping, the pool's workers keep running
\* MVCCExecuteTxn, and a free mutex is taken by a worker that waits for it.
FairMVCC ==
  /\ WF_vars(RunMVCCScheduler) /\ WF_vars(MVCCRead) /\ WF_vars(MVCCRun)
  /\ WF_vars(MVCCLock) /\ WF_vars(MVCCFinish)

FairSpecMVCCWriters == InitWriters /\ [][NextMVCC]_vars /\ FairMVCC

\* ------------------------------------------------------------- fair schedule
\* The scheduler thread keeps looping and the pool's workers keep running
\* the tasks they were given.
FairLocking ==
  /\ WF_vars(LockingPop) /\ WF_vars(LockingCompleted) /\ WF_vars(LockingDispatch)
  /\ WF_vars(PopEmpty) /\ WF_vars(CompletedEmpty) /\ WF_vars(ReadyEmpty)
  /\ WF_vars(ExecStart) /\ WF_vars(ExecRead) /\ WF_vars(ExecRun)

\* A reader, a writer and a second reader of key 1.
WorkloadSingleKey == <<RMW({1}, {}), RMW({}, {1}), RMW({1}, {})>>

\* A writer of key 1 followed by two readers of it.
WorkloadWriterReaders == <<RMW({}, {1}), RMW({1}, {}), RMW({1}, {})>>

\* Two readers of key 1 followed by a writer of it.
WorkloadReadersWriter == <<RMW({1}, {}), RMW({1}, {}), RMW({}, {1})>>

SingleKeyWorkloads == {WorkloadSingleKey, WorkloadWriterReaders, WorkloadReadersWriter}

InitSingleKey == \E m \in LockingModes, w \in SingleKeyWorkloads : InitWith(m, w)

FairSpecSingleKey == InitSingleKey /\ [][NextLocking]_vars /\ FairLocking

FairSpecLockA == InitLockA /\ [][NextLocking]_vars /\ FairLocking

\* ------------------------------------------------------------------ claims
\* The txn was handed to the execution side and the scheduler has not yet
\* released its locks: it is on ready_txns_, runs in a task, or waits on
\* completed_txns_.
InFlight(t) ==
  \/ \E i \in DOMAIN ready_txns_ : ready_txns_[i] = t
  \/ \E task \in BagToSet(tasks) : task.txn = t
  \/ \E i \in DOMAIN completed_txns_ : completed_txns_[i] = t

KeysOf(p) == p.readset_ \cup p.writeset_

\* Every submitted txn has surfaced and nothing is left in the engine.
AllSurfaced ==
  /\ submitted = Len(prog)
  /\ \A t \in Txns : pushes[t] >= 1
  /\ tasks = EmptyBag
  /\ txn_requests_ = <<>>
  /\ ready_txns_ = <<>>
  /\ mode_ \in SerialModes \/ completed_txns_ = <<>>

\* The latest value of a key: the front version under MVCC, else data_.
StoredValue(k) ==
  IF mode_ = "MVCC" THEN mvcc_data_[k][1].value_ ELSE storage_.data_[k]

\* The txn surfaced with its writes applied: COMMITTED, or, under MVCC where
\* the status is left as Run set it, published with COMPLETED_C.
CommittedInstance(t) ==
  \/ status_[t] = "COMMITTED"
  \/ mode_ = "MVCC" /\ pushes[t] >= 1 /\ status_[t] = "COMPLETED_C"

\* A restart has been given an id: more ids were handed out than txns were
\* submitted.
Restarted == Len(idlog) > submitted

\* The largest number of transactions of a workload.
MaxTxns == 3

\* C1: every admitted transaction is pushed onto the result queue at most
\* once, in every mode and for arbitrary read/write sets.
C1_PushedAtMostOnce == \A t \in Txns : pushes[t] <= 1

\* C2: under fair scheduling of the scheduler thread and the workers every
\* admitted transaction is eventually pushed onto the result queue.  (A run
\* that is cut short only because the model hands out no id above MaxId is
\* not counted against the claim; a run that ended in DIE is.)
C2_EventuallyPushed ==
  \A t \in 1..MaxTxns :
    (t <= Len(prog) /\ unique_id_[t] # 0)
      ~> (t <= Len(prog) /\ (pushes[t] > 0 \/ (next_unique_id_ > MaxId /\ ~dead)))

\* C3: every transaction GetTxnResult returns has status COMMITTED or
\* ABORTED; INCOMPLETE, COMPLETED_C and COMPLETED_A are never visible to the
\* caller.
C3_ReturnedStatusTerminal ==
  \A i \in DOMAIN returned : returned[i].status \in {"COMMITTED", "ABORTED"}

\* C4: transaction ids are unique and strictly increasing in assignment
\* order: the ids handed out (first submissions and restarts, from any
\* thread) form a strictly increasing sequence, every admitted txn carries
\* the id it was last given, and no two txns carry the same id.
C4_IdsUniqueIncreasing ==
  /\ \A i, j \in DOMAIN idlog : i < j => idlog[i] < idlog[j]
  /\ \A t \in Txns : unique_id_[t] # 0 => \E i \in DOMAIN idlog : idlog[i] = unique_id_[t]
  /\ \A t1, t2 \in Txns :
       (t1 # t2 /\ unique_id_[t1] # 0 /\ unique_id_[t2] # 0)
         => unique_id_[t1] # unique_id_[t2]
  /\ \A i \in DOMAIN idlog : idlog[i] < next_unique_id_

\* C4 case: a restarted txn got a fresh id after at least two admissions.
C4_Witness == Restarted /\ submitted >= 2

\* C5: when the concurrent RMW transactions (read_set {1,2}, write_set {3})
\* have all surfaced, the stored value of key 3 is the initial value 0 plus
\* the number of committed instances.
C5_NoLostUpdate ==
  (prog = WorkloadRMW /\ AllSurfaced)
    => StoredValue(3) = Cardinality({t \in Txns : CommittedInstance(t)})

\* C6: under Locking A no two transactions that were placed on the ready
\* queue and have not yet had their locks released have a key in common in
\* read_set \cup write_set.
C6_LockingAMutualExclusion ==
  mode_ = "LOCKING_EXCLUSIVE_ONLY" =>
    \A t1, t2 \in Txns :
      (t1 # t2 /\ InFlight(t1) /\ InFlight(t2))
        => KeysOf(prog[t1]) \cap KeysOf(prog[t2]) = {}

\* C7: under Locking B the transactions granted a key (placed on ready and
\* not yet released) are a single EXCLUSIVE owner or a set of SHARED owners:
\* a writer of the key is never granted together with another owner.
C7_LockingBCompatibility ==
  mode_ = "LOCKING" =>
    \A k \in Keys : \A t1, t2 \in Txns :
      (t1 # t2 /\ InFlight(t1) /\ InFlight(t2)
         /\ k \in KeysOf(prog[t1]) /\ k \in KeysOf(prog[t2]))
        => k \notin prog[t1].writeset_ \cup prog[t2].writeset_

ReadByLater(chain, t) == \E j \in 1..Len(chain) : chain[j].max_read_id_ > t

\* C9: CheckWrite(key, t) is true iff no version on the key has
\* max_read_id > t, and no transaction with id t inserts a version on a key
\* that holds a version with max_read_id > t.
C9_MVCCWriteRule ==
  /\ [](\A k \in Keys : \A t \in 1..(MaxId + 1) :
          MVCCStorage_CheckWrite(mvcc_data_[k], t) = ~ReadByLater(mvcc_data_[k], t))
  /\ [][\A k \in Keys : \A t \in Txns :
          (Len(mvcc_data_'[k]) > Len(mvcc_data_[k]) /\ pushes'[t] > pushes[t])
            => ~ReadByLater(mvcc_data_[k], unique_id_[t])]_vars

\* C10: Read(key, t) returns the value of the version with the greatest
\* version_id <= t, and returns false and assigns nothing when the key is
\* absent or no version has version_id <= t.
C10_MVCCReadResult ==
  [][call'.op = "Read" =>
       LET chain == mvcc_data_[call'.key]
           S == {j \in 1..Len(chain) : chain[j].version_id_ <= call'.id}
       IN IF S = {}
          THEN ~call'.ret /\ ~call'.set
          ELSE /\ call'.ret
               /\ call'.set
               /\ \E j \in S :
                    /\ \A i \in S : chain[i].version_id_ <= chain[j].version_id_
                    /\ call'.value = chain[j].value_]_vars

\* The writers of key k other than w.
OtherWriters(w, k) == {x \in Txns \ {w} : k \in DOMAIN writes_[x]}

\* w surfaced as COMMITTED exactly once before r was submitted, it is at rest,
\* and no other writer of k has been applied to storage.
LastCommittedWriter(w, r, k) ==
  /\ w \in committed_at_submit[r]
  /\ pushes[w] = 1
  /\ ~InFlight(w)
  /\ k \in DOMAIN writes_[w]
  /\ \A x \in OtherWriters(w, k) : pushes[x] = 0

\* C11: under SERIAL, Locking A, Locking B and OCC, when W wrote v to k and
\* surfaced as COMMITTED before R was submitted, and no other write to k has
\* committed, the value R read for k is v.
C11_CommittedWriteVisible ==
  mode_ # "MVCC" =>
    \A r \in Txns : \A w \in committed_at_submit[r] :
      \A k \in DOMAIN reads_[r] \cap DOMAIN writes_[w] :
        LastCommittedWriter(w, r, k) => reads_[r][k] = writes_[w][k]

C11_Witness ==
  /\ mode_ \in {"LOCKING", "OCC"}
  /\ prog = WorkloadPutExpect
  /\ LastCommittedWriter(1, 2, 1)
  /\ reads_[2] = (1 :> 5)
  /\ status_[2] = "COMMITTED"

\* C12: under P_OCC a transaction is validated and committed by the worker
\* thread that executed it: on the step that surfaces it, it is a task of the
\* thread pool.
C12_ValidatedOnWorker ==
  [][\A t \in Txns :
       (mode_ = "P_OCC" /\ pushes'[t] > pushes[t])
         => \E task \in BagToSet(tasks) : task.txn = t]_vars

\* The program of t declares COMPLETED_ABORT on the values rd.
DeclaresAbort(t, rd) == Run(prog[t], rd, writes_[t]).status = "COMPLETED_A"

\* C13: in every mode, a transaction whose program declared COMPLETED_ABORT
\* surfaces with status ABORTED, without a change of any stored value or
\* version, and is not handed back to the request queue.
C13_ProgramAbort ==
  [][\A t \in Txns :
       (pushes'[t] > pushes[t] /\ DeclaresAbort(t, reads_'[t]))
         => /\ status_'[t] = "ABORTED"
            /\ storage_'.data_ = storage_.data_
            /\ mvcc_data_' = mvcc_data_
            /\ \A i \in DOMAIN txn_requests_' : txn_requests_'[i] # t]_vars

\* The run of t has ended and the engine holds t nowhere any more.
RunHandled(t) ==
  /\ writes_[t] # EmptyMap
  /\ ~\E task \in BagToSet(tasks) : task.txn = t
  /\ mode_ \in SerialModes \/ \A i \in DOMAIN completed_txns_ : completed_txns_[i] # t
  /\ \A i \in DOMAIN txn_requests_ : txn_requests_[i] # t
  /\ \A i \in DOMAIN ready_txns_ : ready_txns_[i] # t

\* Some write of t is in storage.
WritesStored(t) ==
  \E k \in DOMAIN writes_[t] :
    \/ mode_ # "MVCC" /\ storage_.data_[k] = writes_[t][k]
    \/ mode_ = "MVCC" /\ \E j \in DOMAIN mvcc_data_[k] : mvcc_data_[k][j].value_ = writes_[t][k]

\* C14: in every mode, a transaction whose program ended with a status that
\* is neither COMPLETED_COMMIT nor COMPLETED_ABORT is never pushed onto the
\* result queue, none of its writes reaches storage, and once the engine has
\* handled its run the engine is in the fatal state.
C14_InvalidStatusFatal ==
  \A t \in Txns :
    prog[t].kind = "Unfinished" =>
      /\ pushes[t] = 0
      /\ ~WritesStored(t)
      /\ RunHandled(t) => dead

\* The versions of every key.
AllVersions == UNION {{mvcc_data_[k][j] : j \in DOMAIN mvcc_data_[k]} : k \in DOMAIN mvcc_data_}

\* A version some reader has observed: only Read moves max_read_id_ off the 0
\* that Write gives it (a reader with id 0 can observe version 0 only).
Observed(v) == v.max_read_id_ # 0 \/ v.version_id_ = 0

\* C15: every version that a reader has observed has version_id <=
\* max_read_id, and right after Read(key, t) has observed a version v,
\* v.version_id <= t <= v.max_read_id.
C15_MVCCVersionBounds ==
  /\ \A v \in AllVersions : Observed(v) => v.version_id_ <= v.max_read_id_
  /\ (call.op = "Read" /\ call.set) =>
       \E j \in DOMAIN mvcc_data_[call.key] :
         LET v == mvcc_data_[call.key][j]
         IN /\ v.value_ = call.value
            /\ v.version_id_ <= call.id
            /\ call.id <= v.max_read_id_
            /\ \A i \in DOMAIN mvcc_data_[call.key] :
                 mvcc_data_[call.key][i].version_id_ <= call.id
                   => mvcc_data_[call.key][i].version_id_ <= v.version_id_

C15_Witness ==
  /\ call.op = "Read" /\ call.set /\ call.id = 3
  /\ \E j \in DOMAIN mvcc_data_[1] :
       /\ mvcc_data_[1][j].version_id_ = 2
       /\ mvcc_data_[1][j].max_read_id_ = 3
       /\ mvcc_data_[1][j].value_ = call.value

\* Index of the version Read(key, t) observes in chain: a version with the
\* greatest version_id_ <= t, the first such from the front; 0 when none.
ObservedIndex(chain, t) ==
  LET S == {j \in DOMAIN chain : chain[j].version_id_ <= t}
      top == {j \in S : \A i \in S : chain[i].version_id_ <= chain[j].version_id_}
  IN IF S = {} THEN 0 ELSE Min(top)

\* C16: Read(key, t) sets the observed version's max_read_id to
\* max(max_read_id, t), so no version's max_read_id ever decreases by a read,
\* and the max_read_id of every other version is left as it was.
C16_MaxReadIdMonotone ==
  [][call'.op = "Read" =>
       \A k \in DOMAIN mvcc_data_ :
         /\ Len(mvcc_data_'[k]) = Len(mvcc_data_[k])
         /\ \A j \in DOMAIN mvcc_data_[k] :
              LET old == mvcc_data_[k][j].max_read_id_
                  new == mvcc_data_'[k][j].max_read_id_
              IN IF k = call'.key /\ j = ObservedIndex(mvcc_data_[k], call'.id)
                 THEN new = (IF old > call'.id THEN old ELSE call'.id)
                 ELSE new = old]_vars

\* t has surfaced as committed under its current id and is at rest.
SurfacedCommitted(t) ==
  /\ CommittedInstance(t)
  /\ pushes[t] >= 1
  /\ ~InFlight(t)
  /\ \A i \in DOMAIN txn_requests_ : txn_requests_[i] # t

\* C17: under MVCC, for every transaction T that surfaced as committed and
\* every key k it read, the value T observed is the value of the version with
\* the greatest version_id below T's id among the versions committed on k by
\* other transactions.
C17_MVCCTimestampOrder ==
  mode_ = "MVCC" =>
    \A t \in Txns : \A k \in Keys :
      (SurfacedCommitted(t) /\ k \in DOMAIN reads_[t]) =>
        LET chain == mvcc_data_[k]
            S == {j \in DOMAIN chain : chain[j].version_id_ < unique_id_[t]}
        IN \E j \in S :
             /\ \A i \in S : chain[i].version_id_ <= chain[j].version_id_
             /\ reads_[t][k] = chain[j].value_

\* t owns a request, granted or waiting, in the lock queue tbl[k].
HasRequest(tbl, t, k) == \E i \in DOMAIN tbl[k] : tbl[k][i].txn_ = t

\* C18: under Locking A and Locking B, when the scheduler restarts a
\* transaction because one of its lock requests was denied, the transaction
\* gets a larger id and is back on the request queue, and right after that
\* step no lock queue holds a request of it and it is not on the ready queue.
C18_RestartReleasesAll ==
  [][\A t \in Txns :
       (mode_ \in LockingModes /\ unique_id_[t] # 0 /\ unique_id_'[t] # unique_id_[t])
         => /\ unique_id_'[t] > unique_id_[t]
            /\ \E i \in DOMAIN txn_requests_' : txn_requests_'[i] = t
            /\ \A k \in DOMAIN lock_table_' : ~HasRequest(lock_table_', t, k)
            /\ \A i \in DOMAIN ready_txns_' : ready_txns_'[i] # t]_vars

\* The requests of lock_table_[k] that hold the lock: the owners Status
\* reports are a prefix of the queue.
NumOwners(k) ==
  Len(IF mode_ = "LOCKING_EXCLUSIVE_ONLY" THEN LockManagerA_Status(lock_table_[k]).owners
      ELSE LockManagerB_Status(lock_table_[k]).owners)

Owns(t, k) == \E i \in 1..NumOwners(k) : lock_table_[k][i].txn_ = t

Waits(t, k) == \E i \in (NumOwners(k) + 1)..Len(lock_table_[k]) : lock_table_[k][i].txn_ = t

\* total of RunLockingScheduler.
Total(t) == Cardinality(prog[t].readset_) + Cardinality(prog[t].writeset_)

\* C19: under Locking A and Locking B, after every scheduler step no
\* transaction owns a lock on one key while a request of it waits on another
\* key, only transactions with a single key are waiting in a lock queue, and
\* no owner of a lock somebody waits for is itself waiting (no wait-for cycle).
C19_NoHoldAndWait ==
  mode_ \in LockingModes =>
    \A k \in Keys :
      NumOwners(k) < Len(lock_table_[k]) =>
        \A t \in Txns :
          Waits(t, k) =>
            /\ Total(t) = 1
            /\ \A k2 \in Keys \ {k} : ~Owns(t, k2)
            /\ \A u \in Txns \ {t} :
                 Owns(u, k) => \A k2 \in Keys : ~Waits(u, k2)

C19_Witness ==
  /\ mode_ \in LockingModes
  /\ \E t, u \in Txns : \E k \in Keys :
       /\ Waits(t, k) /\ Total(t) = 1
       /\ Owns(u, k) /\ Total(u) > 1
       /\ \E k2 \in Keys \ {k} : Owns(u, k2)

\* How many times t is on the ready queue, in the thread pool, or on
\* completed_txns_.
Instances(t) ==
  Cardinality({i \in DOMAIN ready_txns_ : ready_txns_[i] = t})
  + Cardinality({i \in DOMAIN completed_txns_ : completed_txns_[i] = t})
  + (IF \E task \in BagToSet(tasks) : task.txn = t
     THEN CopiesIn(CHOOSE task \in BagToSet(tasks) : task.txn = t, tasks)
          + Cardinality({task \in BagToSet(tasks) : task.txn = t}) - 1
     ELSE 0)

\* A request of another txn that conflicts with t's request is ahead of it in
\* the queue of k.
ConflictAhead(t, k) ==
  \E j \in DOMAIN lock_table_[k] : \E i \in 1..(j - 1) :
    /\ lock_table_[k][j].txn_ = t
    /\ lock_table_[k][i].txn_ # t
    /\ "EXCLUSIVE" \in {lock_table_[k][i].mode_, lock_table_[k][j].mode_}

\* Safety half of C20 for one txn that was left waiting.
ServedOnce(t) ==
  \A k \in KeysOf(prog[t]) :
    /\ pushes[t] <= 1
    /\ Instances(t) <= 1
    /\ (pushes[t] = 0 /\ Instances(t) = 0)
         => HasRequest(lock_table_, t, k) /\ ConflictAhead(t, k)
    /\ Instances(t) = 1 => HasRequest(lock_table_, t, k) /\ ~ConflictAhead(t, k)
    /\ pushes[t] = 1 => status_[t] = "COMMITTED"

\* C20: under Locking A and Locking B, a transaction with a single key whose
\* request was denied stays in the lock queue as long as a conflicting
\* request is ahead of it, is on the ready queue or running exactly once when
\* none is left, and eventually commits.
C20_SingleKeyWaitServed ==
  /\ [](\A t \in denied : ServedOnce(t))
  /\ \A t \in 1..MaxTxns : (t \in denied) ~> (t \in denied /\ status_[t] = "COMMITTED")

\* The keys on which t has a queued request that is not an owner.
WaitingKeys(t) == {k \in Keys : Waits(t, k)}

\* C21: under Locking A and Locking B, in every state the wait counter of a
\* transaction equals the number of keys on which it has a queued request
\* that is not an owner; a transaction without a waiting request has no
\* entry or a zero count.
C21_WaitCounterAccounting ==
  mode_ \in LockingModes =>
    \A t \in Txns : MapGet0(txn_waits_, t) = Cardinality(WaitingKeys(t))

\* C22: under Locking B, for every key the counter _numExclusiveWaiting[key]
\* equals the number of EXCLUSIVE requests in the key's queue, whatever
\* requests were erased by Release.
C22_ExclusiveWaitingAccounting ==
  mode_ = "LOCKING" =>
    \A k \in Keys :
      numExclusiveWaiting[k] =
        Cardinality({i \in DOMAIN lock_table_[k] : lock_table_[k][i].mode_ = "EXCLUSIVE"})

HasExclusive(q) == \E i \in DOMAIN q : q[i].mode_ = "EXCLUSIVE"

\* C24: under LockManagerB a ReadLock call appends a SHARED request and
\* returns true iff the key's queue was empty before the insertion or holds
\* no EXCLUSIVE request; a WriteLock call appends an EXCLUSIVE request, adds
\* one to the key's count of exclusive requests and returns true iff the
\* queue was empty before the insertion; a call that returns false adds
\* exactly one to the caller's wait count.
C24_LockingBGrantRule ==
  [][(mode_ = "LOCKING" /\ call'.op \in {"ReadLock", "WriteLock"}) =>
       LET k == call'.key
           t == call'.txn
           q0 == QueueAt(lock_table_, k)
       IN /\ txn_waits_' = IF call'.ret THEN txn_waits_
                           ELSE MapPut(txn_waits_, t, MapGet0(txn_waits_, t) + 1)
          /\ IF call'.op = "ReadLock"
             THEN /\ lock_table_'[k] = Append(q0, LockRequest("SHARED", t))
                  /\ numExclusiveWaiting' = numExclusiveWaiting
                  /\ call'.ret = (q0 = <<>> \/ ~HasExclusive(q0))
             ELSE /\ lock_table_'[k] = Append(q0, LockRequest("EXCLUSIVE", t))
                  /\ numExclusiveWaiting' =
                       [numExclusiveWaiting EXCEPT ![k] = @ + 1]
                  /\ call'.ret = (q0 = <<>>)]_vars

RECURSIVE SharedPrefix(_)
\* The owners of the longest prefix of SHARED requests of a queue.
SharedPrefix(q) ==
  IF q = <<>> \/ q[1].mode_ # "SHARED" THEN <<>>
  ELSE <<q[1].txn_>> \o SharedPrefix(Tail(q))

\* C25: a Status call, for a key that was requested before or never, returns
\* UNLOCKED iff the key's queue is empty; otherwise LockManagerA returns
\* EXCLUSIVE with the owner of the head request, and LockManagerB returns
\* SHARED with the owners of the longest prefix of SHARED requests when the
\* head is SHARED and EXCLUSIVE with the owner of the head when the head is
\* EXCLUSIVE.  The call leaves every queue as it was.
C25_LockStatus ==
  [][call'.op = "Status" =>
       LET q == QueueAt(lock_table_, call'.key)
       IN /\ \A k \in Keys : QueueAt(lock_table_', k) = QueueAt(lock_table_, k)
          /\ IF q = <<>> THEN call'.ret = "UNLOCKED"
             ELSE IF mode_ = "LOCKING_EXCLUSIVE_ONLY" \/ q[1].mode_ = "EXCLUSIVE"
                  THEN call'.ret = "EXCLUSIVE" /\ call'.owners = <<q[1].txn_>>
                  ELSE call'.ret = "SHARED" /\ call'.owners = SharedPrefix(q)]_vars

RECURSIVE IsSubsequence(_, _)
\* The requests of p are requests of q, in the order they have in q.
IsSubsequence(p, q) ==
  IF p = <<>> THEN TRUE
  ELSE IF q = <<>> THEN FALSE
  ELSE IF p[1] = q[1] THEN IsSubsequence(Tail(p), Tail(q))
  ELSE IsSubsequence(p, Tail(q))

\* Request i of queue q comes after a request of another transaction that
\* it conflicts with.
BehindConflict(q, i) ==
  \E j \in 1..(i - 1) :
    /\ q[j].txn_ # q[i].txn_
    /\ (q[j].mode_ = "EXCLUSIVE" \/ q[i].mode_ = "EXCLUSIVE")

\* Each key's queue keeps the requests it does not lose in their order, new
\* requests coming last.
OrderKept ==
  \A k \in Keys :
    \E n \in 0..Len(QueueAt(lock_table_', k)) :
      IsSubsequence(SubSeq(QueueAt(lock_table_', k), 1, n), QueueAt(lock_table_, k))

\* The transactions the step appends to ready_txns_.
MadeReady ==
  {ready_txns_'[i] : i \in (Len(ready_txns_) + 1)..Len(ready_txns_')}

\* C26: in every step each key's queue keeps the requests it does not lose
\* in their order, new requests coming last; a request that ReadLock or
\* WriteLock grants is not queued behind a conflicting request of another
\* transaction, and a transaction that the step makes ready has no request
\* queued behind a conflicting request of another transaction.
C26_FifoGranting ==
  [][(mode_ \in LockingModes) =>
       /\ OrderKept
       /\ (call'.op \in {"ReadLock", "WriteLock"} /\ call'.ret) =>
            ~BehindConflict(lock_table_'[call'.key], Len(lock_table_'[call'.key]))
       /\ \A t \in MadeReady :
            \A k \in DOMAIN lock_table_' :
              \A j \in DOMAIN lock_table_'[k] :
                lock_table_'[k][j].txn_ = t => ~BehindConflict(lock_table_'[k], j)]_vars

\* C27: when the OCC scheduler puts a transaction that declared
\* COMPLETED_C and failed validation back on the request queue, the
\* transaction is not published, its reads_ and writes_ maps are empty, its
\* status is INCOMPLETE and its id is larger than before.
C27_OCCRestartClean ==
  [][\A t \in Txns :
       (/\ mode_ = "OCC"
        /\ status_[t] = "COMPLETED_C"
        /\ status_'[t] = "INCOMPLETE") =>
         /\ pushes'[t] = pushes[t]
         /\ txn_results_' = txn_results_
         /\ unique_id_'[t] > unique_id_[t]
         /\ txn_requests_' = Append(txn_requests_, t)
         /\ reads_'[t] = EmptyMap
         /\ writes_'[t] = EmptyMap]_vars

\* C28: under OCC a step changes the stored values or their timestamps only
\* when the scheduler thread pops the transaction at the head of
\* completed_txns_ and commits it, no worker moving in that step; the step
\* stores every pair of that transaction's writes_ and leaves every other
\* key alone; and every step that commits a transaction commits the head of
\* completed_txns_ and stores its writes.
C28_OCCApplyOnScheduler ==
  [][(mode_ = "OCC") =>
       LET head == Head(completed_txns_)
           Stored == /\ completed_txns_ # <<>>
                     /\ completed_txns_' = Tail(completed_txns_)
                     /\ tasks' = tasks
                     /\ status_[head] = "COMPLETED_C"
                     /\ status_'[head] = "COMMITTED"
                     /\ \A t \in Txns \ {head} : status_'[t] = status_[t]
                     /\ \A k \in AllKeys :
                          IF k \in DOMAIN writes_[head]
                          THEN /\ k \in DOMAIN storage_'.data_
                               /\ storage_'.data_[k] = writes_[head][k]
                               /\ storage_'.timestamps_[k] >= storage_.clock
                          ELSE /\ (k \in DOMAIN storage_'.data_) = (k \in DOMAIN storage_.data_)
                               /\ k \in DOMAIN storage_.data_ =>
                                    /\ storage_'.data_[k] = storage_.data_[k]
                                    /\ storage_'.timestamps_[k] = storage_.timestamps_[k]
       IN /\ (storage_'.data_ # storage_.data_
                \/ storage_'.timestamps_ # storage_.timestamps_) => Stored
          /\ (\E t \in Txns : status_[t] # "COMMITTED" /\ status_'[t] = "COMMITTED")
               => Stored]_vars

\* Under OCC a transaction that wrote two keys is committed and stored while
\* another finished transaction waits for its validation.
C28_Witness ==
  /\ mode_ = "OCC"
  /\ completed_txns_ # <<>>
  /\ \E t \in Txns :
       /\ status_[t] = "COMMITTED"
       /\ Cardinality(DOMAIN writes_[t]) = 2
       /\ \A k \in DOMAIN writes_[t] : storage_.data_[k] = writes_[t][k]
       /\ t \notin {completed_txns_[i] : i \in DOMAIN completed_txns_}

\* The step is transaction t ending MVCCExecuteTxn: CheckWrite for its
\* writes, then its Writes or its abort.
MVCCFinishes(t) ==
  LET task == Task(t, "mvcc_lock", Cardinality(prog[t].writeset_) + 1)
  IN BagIn(task, tasks) /\ tasks' = tasks (-) SetToBag({task})

\* The step is transaction t reading key k in a read loop of MVCCExecuteTxn.
MVCCReads(t, k) ==
  \E i \in DOMAIN KeySeq(prog[t]) :
    /\ KeySeq(prog[t])[i] = k
    /\ BagIn(Task(t, "mvcc_read", i), tasks)
    /\ tasks' = (tasks (-) SetToBag({Task(t, "mvcc_read", i)}))
                  (+) SetToBag({Task(t, "mvcc_read", i + 1)})

\* C29: under MVCC a transaction that checks and writes holds the mutex of
\* every key of its write set when it starts checking and has released them
\* all when it is done or aborted; a key's version chain changes only in the
\* step of the transaction that holds the key's mutex, or in a read made
\* while nobody holds it; and a read of a key is made only while no
\* transaction holds the key's mutex.
C29_MVCCWritePhaseIsolation ==
  [][(mode_ = "MVCC") =>
       /\ \A t \in Txns :
            MVCCFinishes(t) =>
              /\ \A k \in prog[t].writeset_ : mutexs_[k] = t /\ mutexs_'[k] = 0
              /\ DOMAIN writes_[t] \subseteq prog[t].writeset_
              /\ \A k \in Keys \ prog[t].writeset_ :
                   mvcc_data_'[k] = mvcc_data_[k] /\ mutexs_'[k] = mutexs_[k]
       /\ \A t \in Txns, k \in Keys :
            MVCCReads(t, k) => mutexs_[k] = 0 /\ mutexs_' = mutexs_
       /\ \A k \in Keys :
            mvcc_data_'[k] # mvcc_data_[k] =>
              IF mutexs_[k] # 0 THEN MVCCFinishes(mutexs_[k])
              ELSE \E t \in Txns : MVCCReads(t, k)]_vars

\* Transaction 1 holds the mutexes of both keys of its write set and has not
\* checked yet, while another transaction still has to read one of the keys.
C29_Witness ==
  /\ mode_ = "MVCC"
  /\ Cardinality(prog[1].writeset_) = 2
  /\ BagIn(Task(1, "mvcc_lock", 3), tasks)
  /\ \A k \in prog[1].writeset_ : mutexs_[k] = 1
  /\ \E task \in BagToSet(tasks) :
       /\ task.txn # 1 /\ task.pc = "mvcc_read"
       /\ task.i <= Len(KeySeq(prog[task.txn]))
       /\ KeySeq(prog[task.txn])[task.i] \in prog[1].writeset_

\* Transaction t is in "Lock the whole write-set".
Acquiring(t) ==
  \E task \in BagToSet(tasks) : task.txn = t /\ task.pc = "mvcc_lock"

\* Transaction t waits in Lock for a mutex that transaction u holds.
WaitsFor(t, u) ==
  \E task \in BagToSet(tasks) :
    /\ task.txn = t /\ task.pc = "mvcc_lock"
    /\ task.i <= Len(WriteSetOrder(t))
    /\ mutexs_[WriteSetOrder(t)[task.i]] = u

\* Transaction t has left "Lock the whole write-set" holding every mutex.
HoldsAll(t) ==
  /\ t \in Txns
  /\ BagIn(Task(t, "mvcc_lock", Cardinality(prog[t].writeset_) + 1), tasks)
  /\ \A k \in prog[t].writeset_ : mutexs_[k] = t

\* C30: under MVCC no set of workers is ever such that each of them waits
\* for a write-set mutex held by another worker of the set, and a worker
\* that is acquiring its write-set mutexes eventually holds all of them
\* (as long as the processor has an id left to restart transactions with).
C30_MVCCDeadlockFree ==
  /\ [](\A S \in (SUBSET Txns) \ {{}} :
          \E t \in S : \A u \in S : ~WaitsFor(t, u))
  /\ \A t \in 1..MaxTxns :
       Acquiring(t) ~> (HoldsAll(t) \/ next_unique_id_ > MaxId)

\* Transaction 2 holds both mutexes of its write set while transaction 1,
\* which holds the mutex of the key only it writes, waits for one of them.
C30_Witness ==
  /\ mode_ = "MVCC"
  /\ HoldsAll(2)
  /\ Cardinality(prog[2].writeset_) = 2
  /\ WaitsFor(1, 2)
  /\ \E k \in prog[1].writeset_ : mutexs_[k] = 1

\* C31: under MVCC, when CheckWrite fails for a key of the writes of a
\* transaction that ends MVCCExecuteTxn, the step inserts no version on any
\* key, releases every mutex of the write set, leaves reads_ and writes_ of
\* the transaction empty and its status INCOMPLETE, and appends it to
\* txn_requests_, not to txn_results_, with an id larger than every id
\* handed out before.
C31_MVCCFailedCheckAllOrNothing ==
  [][(mode_ = "MVCC") =>
       \A t \in Txns :
         (/\ MVCCFinishes(t)
          /\ \E k \in DOMAIN writes_[t] :
               ~MVCCStorage_CheckWrite(mvcc_data_[k], unique_id_[t])) =>
           /\ mvcc_data_' = mvcc_data_
           /\ \A k \in prog[t].writeset_ : mutexs_'[k] = 0
           /\ reads_'[t] = EmptyMap
           /\ writes_'[t] = EmptyMap
           /\ status_'[t] = "INCOMPLETE"
           /\ txn_requests_' = Append(txn_requests_, t)
           /\ txn_results_' = txn_results_
           /\ pushes' = pushes
           /\ \A i \in DOMAIN idlog : unique_id_'[t] > idlog[i]]_vars

\* A transaction that wrote a key was sent back after a failed check: it is
\* on the request queue with a second id and nothing of its first attempt.
C31_Witness ==
  /\ mode_ = "MVCC"
  /\ \E t \in Txns :
       /\ prog[t].writeset_ # {}
       /\ \E i \in DOMAIN txn_requests_ : txn_requests_[i] = t
       /\ Cardinality({i \in DOMAIN idlog : idlog[i] = unique_id_[t]}) = 1
       /\ unique_id_[t] > Len(prog)
       /\ reads_[t] = EmptyMap /\ writes_[t] = EmptyMap
       /\ status_[t] = "INCOMPLETE"
       /\ pushes[t] = 0

\* C32: under MVCC the version chain of every key of the initialised range
\* is never empty and holds at most one version for a version_id_; and in
\* every step each version of a chain is still in the chain afterwards with
\* the value_ and version_id_ it had.
C32_MVCCChainInvariants ==
  /\ [](mode_ = "MVCC" =>
          \A k \in Keys :
            /\ mvcc_data_[k] # <<>>
            /\ \A i, j \in DOMAIN mvcc_data_[k] :
                 mvcc_data_[k][i].version_id_ = mvcc_data_[k][j].version_id_ => i = j)
  /\ [][(mode_ = "MVCC") =>
          \A k \in Keys :
            \A j \in DOMAIN mvcc_data_[k] :
              \E i \in DOMAIN mvcc_data_'[k] :
                /\ mvcc_data_'[k][i].version_id_ = mvcc_data_[k][j].version_id_
                /\ mvcc_data_'[k][i].value_ = mvcc_data_[k][j].value_]_vars

\* Two transactions have added their versions to the chain of one key, and
\* a version of the chain has been read.
C32_Witness ==
  /\ mode_ = "MVCC"
  /\ \E k \in Keys :
       /\ Len(mvcc_data_[k]) >= 3
       /\ \E j \in DOMAIN mvcc_data_[k] : mvcc_data_[k][j].max_read_id_ > 0

\* ------------------------------------------------------------ thread pool
\* The StaticThreadPool alone: one caller of RunTask, the pool's threads and
\* the destructor that sets the stop flag.
engineVars == <<mode_, prog, submitted, next_unique_id_, unique_id_, status_, reads_,
                writes_, occ_start_time_, txn_requests_, ready_txns_, completed_txns_,
                txn_results_, lock_table_, txn_waits_, numExclusiveWaiting, storage_,
                mvcc_data_, mutexs_, tasks, sched_pc, returned, pushes, idlog,
                call, committed_at_submit, denied>>

\* RunTask, `assert(!stopped_)': with assertions compiled in, a call on a
\* stopped pool aborts the process; without them the call goes on.
RunTaskAssert ==
  /\ ~dead
  /\ run_task.pc = "idle"
  /\ run_task.task < MaxTasks
  /\ \/ /\ ~stopped_
        /\ run_task' = [task |-> run_task.task + 1, pc |-> "push"]
        /\ accepted' = accepted \cup {run_task.task + 1}
        /\ UNCHANGED dead
     \/ /\ stopped_
        /\ \/ /\ dead' = TRUE
              /\ UNCHANGED run_task
           \/ /\ run_task' = [task |-> run_task.task + 1, pc |-> "push"]
              /\ UNCHANGED dead
        /\ UNCHANGED accepted
  /\ UNCHANGED <<engineVars, queues_, stopped_, thread_pc, run_count>>

\* RunTask, the loop: PushNonBlocking on the queue rand() picks; a failed
\* TryLock leaves everything as it is and the loop tries again.
RunTaskPush(q) ==
  /\ ~dead
  /\ run_task.pc = "push"
  /\ queues_' = [queues_ EXCEPT ![q] = Append(@, run_task.task)]
  /\ run_task' = [run_task EXCEPT !.pc = "idle"]
  /\ UNCHANGED <<engineVars, dead, stopped_, thread_pc, accepted, run_count>>

\* RunThread, `PopNonBlocking': the front task is popped and run; the call
\* returns false on an empty queue, or when the mutex is held (only a
\* RunTask call in its loop can hold it).
ThreadPop(q) ==
  /\ ~dead
  /\ thread_pc[q] = "pop"
  /\ \/ /\ queues_[q] # <<>>
        /\ queues_' = [queues_ EXCEPT ![q] = Tail(@)]
        /\ run_count' = [run_count EXCEPT ![Head(queues_[q])] = @ + 1]
     \/ /\ queues_[q] = <<>> \/ run_task.pc = "push"
        /\ UNCHANGED <<queues_, run_count>>
  /\ thread_pc' = [thread_pc EXCEPT ![q] = "check"]
  /\ UNCHANGED <<engineVars, dead, stopped_, run_task, accepted>>

\* RunThread, `if (tp->stopped_)'.
ThreadCheck(q) ==
  /\ ~dead
  /\ thread_pc[q] = "check"
  /\ thread_pc' = [thread_pc EXCEPT ![q] = IF stopped_ THEN "drain" ELSE "pop"]
  /\ UNCHANGED <<engineVars, dead, queues_, stopped_, run_task, accepted, run_count>>

\* RunThread, `while (Pop(&task))' and the break after it.
ThreadDrain(q) ==
  /\ ~dead
  /\ thread_pc[q] = "drain"
  /\ IF queues_[q] # <<>>
       THEN /\ queues_' = [queues_ EXCEPT ![q] = Tail(@)]
            /\ run_count' = [run_count EXCEPT ![Head(queues_[q])] = @ + 1]
            /\ UNCHANGED thread_pc
       ELSE /\ thread_pc' = [thread_pc EXCEPT ![q] = "exit"]
            /\ UNCHANGED <<queues_, run_count>>
  /\ UNCHANGED <<engineVars, dead, stopped_, run_task, accepted>>

\* ~StaticThreadPool sets the stop flag.
StopPool ==
  /\ ~dead
  /\ ~stopped_
  /\ stopped_' = TRUE
  /\ UNCHANGED <<engineVars, dead, queues_, thread_pc, run_task, accepted, run_count>>

NextPool ==
  \/ RunTaskAssert
  \/ \E q \in Threads : RunTaskPush(q)
  \/ \E q \in Threads : ThreadPop(q)
  \/ \E q \in Threads : ThreadCheck(q)
  \/ \E q \in Threads : ThreadDrain(q)
  \/ StopPool

InitPool == InitWith("SERIAL", <<>>)

SpecPool == InitPool /\ [][NextPool]_vars

\* Every thread of the pool keeps running, and the loop of RunTask keeps
\* trying until a push succeeds.
FairPool ==
  /\ \A q \in Threads : WF_vars(ThreadPop(q))
  /\ \A q \in Threads : WF_vars(ThreadCheck(q))
  /\ \A q \in Threads : WF_vars(ThreadDrain(q))
  /\ WF_vars(\E q \in Threads : RunTaskPush(q))

FairSpecPool == SpecPool /\ FairPool

\* The places of the queues that hold task i.
QueuePlaces(i) ==
  {p \in Threads \X (1..MaxTasks) :
     p[2] \in DOMAIN queues_[p[1]] /\ queues_[p[1]][p[2]] = i}

\* C33: every task whose RunTask call found the pool active is never in more
\* than one place of the queues, is never run twice, is not run while it is
\* still queued, and is in the end run (unless the process was aborted).
C33_ThreadPoolRunsEveryTask ==
  /\ [](\A i \in TaskIds :
          Cardinality(QueuePlaces(i)) + run_count[i] <= 1)
  /\ \A i \in TaskIds : (i \in accepted) ~> (run_count[i] = 1 \/ dead)

\* The part of C33 about tasks that were on a queue before the stop flag was
\* set: each of them is run.
PushedWhileActiveIsRun ==
  \A i \in TaskIds :
    (QueuePlaces(i) # {} /\ ~stopped_) ~> (run_count[i] = 1 \/ dead)

\* The modes whose transactions go through ExecuteTxn.
ExecuteTxnModes == {"SERIAL", "LOCKING_EXCLUSIVE_ONLY", "LOCKING", "OCC"}

\* What ExecuteTxn must leave alone: stored values, last-write timestamps,
\* the lock table, the wait counters and the ready queue.
SchedulerStateKept ==
  /\ storage_'.data_ = storage_.data_
  /\ storage_'.timestamps_ = storage_.timestamps_
  /\ lock_table_' = lock_table_
  /\ txn_waits_' = txn_waits_
  /\ numExclusiveWaiting' = numExclusiveWaiting
  /\ ready_txns_' = ready_txns_

\* C34: under SERIAL, Locking A/B and OCC a step of ExecuteTxn on a worker
\* changes the reads, writes, status and start time of one transaction
\* only, at most appends that transaction to the completed queue, and keeps
\* stored values, timestamps, lock table, wait counters and ready queue;
\* a step that changes one of these is a step of the scheduler thread.
C34_WorkerFrame ==
  [][(mode_ \in ExecuteTxnModes) =>
       /\ (ExecStart \/ ExecRead \/ ExecRun) =>
            /\ SchedulerStateKept
            /\ txn_requests_' = txn_requests_
            /\ txn_results_' = txn_results_
            /\ \E t \in Txns :
                 /\ \A u \in Txns \ {t} :
                      /\ reads_'[u] = reads_[u]
                      /\ writes_'[u] = writes_[u]
                      /\ status_'[u] = status_[u]
                      /\ occ_start_time_'[u] = occ_start_time_[u]
                 /\ completed_txns_' \in {completed_txns_, Append(completed_txns_, t)}
       /\ ~SchedulerStateKept =>
            \/ RunSerialScheduler
            \/ LockingPop \/ LockingCompleted \/ LockingDispatch
            \/ OCCPop \/ OCCCompleted]_vars

\* A worker has run a transaction to COMPLETED_C and handed it back, and the
\* value it wants to write is not in the storage.
C34_Witness ==
  /\ mode_ \in {"LOCKING_EXCLUSIVE_ONLY", "LOCKING", "OCC"}
  /\ \E i \in DOMAIN completed_txns_ :
       LET t == completed_txns_[i]
       IN /\ status_[t] = "COMPLETED_C"
          /\ occ_start_time_[t] > 0
          /\ \E k \in DOMAIN writes_[t] :
               Storage_Read(storage_, k).value # writes_[t][k]

\* The version ids of a chain are pairwise distinct.
DistinctIds(chain) ==
  \A i, j \in DOMAIN chain : chain[i].version_id_ = chain[j].version_id_ => i = j

\* C35: a chain built by Write calls with distinct ids, in any order, is
\* sorted in strictly decreasing version_id_ from front to back, and so for
\* every id t the first version from the front with version_id_ <= t has
\* the greatest version_id_ <= t of the chain.
C35_MVCCChainOrdering ==
  \A k \in StoreKeys :
    LET chain == mvcc_data_[k]
    IN DistinctIds(chain) =>
         /\ \A i, j \in DOMAIN chain :
              i < j => chain[i].version_id_ > chain[j].version_id_
         /\ \A t \in StoreIds, i \in DOMAIN chain :
              (/\ chain[i].version_id_ <= t
               /\ \A j \in 1..(i - 1) : chain[j].version_id_ > t) =>
                \A j \in DOMAIN chain :
                  chain[j].version_id_ <= t =>
                    chain[j].version_id_ <= chain[i].version_id_

\* The last call wrote a version with an id below the newest one of a chain
\* of three versions with distinct ids.
C35_Witness ==
  /\ call.op = "Write"
  /\ LET chain == mvcc_data_[call.key]
     IN /\ Len(chain) >= 3
        /\ DistinctIds(chain)
        /\ chain[1].version_id_ > call.id
        /\ chain[2].version_id_ = call.id

\* Transaction t is in the request queue.
Requested(t) == \E i \in DOMAIN txn_requests_ : txn_requests_[i] = t

\* C36: under Locking A and Locking B no transaction is in the request
\* queue while it is on the ready queue or runs on a worker, and every
\* transaction on the ready queue is an owner of the lock of every key of
\* its read set and write set.
C36_NoDoublePresence ==
  (mode_ \in LockingModes) =>
    \A t \in Txns :
      /\ Requested(t) =>
           /\ \A i \in DOMAIN ready_txns_ : ready_txns_[i] # t
           /\ \A task \in BagToSet(tasks) : task.txn # t
      /\ (\E i \in DOMAIN ready_txns_ : ready_txns_[i] = t) =>
           \A k \in KeysOf(prog[t]) : Owns(t, k)

\* A writer of key 1 with a Noop and a reader of key 1.
WorkloadPutNoopRead == <<Put(1 :> 5), Noop, RMW({1}, {})>>

\* Workloads of one writer and two transactions with an empty write set.
WorkloadsReadOnly == {WorkloadPutExpect, WorkloadReaders, WorkloadPutNoopRead}

InitReadOnly == \E w \in WorkloadsReadOnly : InitWith("MVCC", w)

\* MVCC with the scheduler thread and the workers kept running.
FairSpecMVCCReadOnly == InitReadOnly /\ [][NextMVCC]_vars /\ FairMVCC

\* C37: under MVCC a transaction with an empty write set keeps the id of its
\* first admission, leaves the check phase published and not restarted, is
\* never published twice, and once admitted is in the end published.
C37_MVCCReadOnlyNeverRestarts ==
  /\ [][(mode_ = "MVCC") =>
          \A t \in Txns :
            (prog[t].writeset_ = {}) =>
              /\ unique_id_[t] # 0 => unique_id_'[t] = unique_id_[t]
              /\ pushes'[t] <= 1
              /\ MVCCFinishes(t) =>
                   /\ pushes'[t] = pushes[t] + 1
                   /\ txn_results_' = Append(txn_results_, t)
                   /\ txn_requests_' = txn_requests_]_vars
  /\ \A t \in 1..MaxTxns :
       (t \in Txns /\ prog[t].writeset_ = {} /\ unique_id_[t] # 0)
         ~> (t \in Txns /\ pushes[t] = 1)

\* A read-only transaction was published while a writer admitted before it
\* has been restarted.
C37_Witness ==
  /\ mode_ = "MVCC"
  /\ \E t, u \in Txns :
       /\ prog[t].writeset_ = {}
       /\ prog[t].readset_ # {}
       /\ pushes[t] = 1
       /\ prog[u].writeset_ # {}
       /\ unique_id_[u] > Len(prog)

\* C38: under OCC a transaction is published, as ABORTED or as COMMITTED,
\* only in a step in which the attempt passes validation: no key of its read
\* set or write set was written after the attempt's start time.
C38_OCCOutcomesValidated ==
  [][(mode_ = "OCC") =>
       \A t \in Txns :
         (pushes'[t] = pushes[t] + 1) =>
           OCCValid(storage_, prog[t], occ_start_time_[t])]_vars

\* The serial scheduler keeps looping.
FairSpecSerial == SpecSerial /\ WF_vars(RunSerialScheduler)

\* The transactions published so far, in the order of publication: those
\* the client has taken, then those waiting in txn_results_.
Published == [i \in 1..Len(returned) |-> returned[i].txn] \o txn_results_

RECURSIVE ReplayWrites(_, _)
\* The storage after the writes of the COMMITTED transactions of seq were
\* applied to st in the order of seq.
ReplayWrites(st, seq) ==
  IF seq = <<>> THEN st
  ELSE ReplayWrites(IF status_[Head(seq)] = "COMMITTED"
                      THEN ApplyWrites(st, writes_[Head(seq)]) ELSE st,
                    Tail(seq))

\* C39: under SERIAL no transaction gets a second id or is published twice;
\* the transactions are published in the order of their admission; the
\* stored values are those left by the writes of the published transactions
\* in that order; a step that publishes a transaction publishes the head of
\* the request queue, only it, with reads equal to the stored values of the
\* state before the step; and from some point on every admitted transaction
\* has been published.
C39_SerialOrdering ==
  /\ [](mode_ = "SERIAL" =>
          /\ \A i \in DOMAIN Published : unique_id_[Published[i]] = idlog[i]
          /\ \A i, j \in DOMAIN idlog : i < j => idlog[i] < idlog[j]
          /\ \A t \in Txns : pushes[t] <= 1
          /\ storage_.data_ = ReplayWrites(Storage_InitStorage, Published).data_)
  /\ [][(mode_ = "SERIAL") =>
          \A t \in Txns :
            /\ unique_id_[t] # 0 => unique_id_'[t] = unique_id_[t]
            /\ (pushes'[t] # pushes[t]) =>
                 /\ txn_requests_ # <<>> /\ Head(txn_requests_) = t
                 /\ Published' = Append(Published, t)
                 /\ \A k \in KeysOf(prog[t]) \cap DOMAIN storage_.data_ :
                      k \in DOMAIN reads_'[t] /\ reads_'[t][k] = storage_.data_[k]]_vars
  /\ <>[](mode_ = "SERIAL" =>
            \A t \in Txns : unique_id_[t] # 0 => pushes[t] = 1)

\* Under SERIAL three transactions were published, and the last of them had
\* read a value that an earlier one had written.
C39_Witness ==
  /\ mode_ = "SERIAL"
  /\ Len(Published) = 3
  /\ \E k \in DOMAIN reads_[Published[3]] :
       /\ reads_[Published[3]][k] # 0
       /\ \E i \in 1..2 : k \in DOMAIN writes_[Published[i]]
                          /\ status_[Published[i]] = "COMMITTED"

====
